---- MODULE Spec2Model ----
(***************************************************************************)
(* Hybrid retrieval of hi-rag: api/services/searchService.ts               *)
(* (searchRelevantChunks, performVectorSearchWithEmbedding,                *)
(* fuseSearchResults, fallbackKeywordSearch) and                           *)
(* api/services/similarityService.ts (calculateJaccardSimilarity,          *)
(* calculateCosineSimilarity, diversityRerank).                            *)
(*                                                                         *)
(* Numbers: a JavaScript number is modelled by an exact rational <<n, d>>  *)
(* with d > 0, kept in lowest terms.  <<0, 0>> stands for an absent        *)
(* (undefined) numeric field, which the code reads through `x || 0`.       *)
(* Text: a JavaScript string is a sequence of one-character strings.       *)
(***************************************************************************)
EXTENDS Integers, Sequences, FiniteSets, TLC

---------------------------------------------------------------------------
(* Rational arithmetic *)

Abs(x) == IF x < 0 THEN -x ELSE x

RECURSIVE GCD(_, _)
GCD(a, b) == IF b = 0 THEN a ELSE GCD(b, a % b)

Rat(n, d) ==
  LET g == GCD(Abs(n), d)
  IN  IF g = 0 THEN <<0, 1>> ELSE <<n \div g, d \div g>>

Zero == <<0, 1>>
One == <<1, 1>>
MinusOne == <<-1, 1>>
Absent == <<0, 0>>

RAdd(a, b) == Rat(a[1] * b[2] + b[1] * a[2], a[2] * b[2])
RSub(a, b) == Rat(a[1] * b[2] - b[1] * a[2], a[2] * b[2])
RMul(a, b) == Rat(a[1] * b[1], a[2] * b[2])
\* a / b for b > 0
RDiv(a, b) == Rat(a[1] * b[2], a[2] * b[1])
RLt(a, b) == a[1] * b[2] < b[1] * a[2]
RLe(a, b) == a[1] * b[2] <= b[1] * a[2]
RMax(a, b) == IF RLt(a, b) THEN b ELSE a
RMin(a, b) == IF RLt(b, a) THEN b ELSE a
RAbs(a) == <<Abs(a[1]), a[2]>>

\* `x || 0`: an absent number (and 0 itself) reads as 0
OrZero(x) == IF x = Absent THEN Zero ELSE x

\* Math.sqrt on the perfect squares the model's vectors produce
Sqrt(n) == CHOOSE r \in 0..n : r * r = n

---------------------------------------------------------------------------
(* Sequences *)

KeepEvery(s, i) == s

RemoveAt(s, i) == SubSeq(s, 1, i - 1) \o SubSeq(s, i + 1, Len(s))

\* Array.prototype.slice(0, n) for n >= 0
Slice(s, n) == SubSeq(s, 1, IF n < Len(s) THEN n ELSE Len(s))

RECURSIVE SeqsUpTo(_, _)
SeqsUpTo(S, n) ==
  IF n = 0 THEN {<<>>}
  ELSE LET shorter == SeqsUpTo(S, n - 1)
       IN  shorter \cup {Append(s, x) : s \in shorter, x \in S}

---------------------------------------------------------------------------
(* Text *)

UpperToLower ==
  [c \in {"A", "B", "C", "D", "G", "H"} |->
     CASE c = "A" -> "a" [] c = "B" -> "b" [] c = "C" -> "c"
       [] c = "D" -> "d" [] c = "G" -> "g" [] c = "H" -> "h"]

\* String.prototype.toLowerCase, one character
LowerChar(c) == IF c \in DOMAIN UpperToLower THEN UpperToLower[c] ELSE c

toLowerCase(s) == [i \in 1..Len(s) |-> LowerChar(s[i])]

IsSpace(c) == c = " "
IsPunct(c) == c \in {".", ","}

\* String.prototype.includes
includes(s, t) ==
  \E i \in 0..(Len(s) - Len(t)) : SubSeq(s, i + 1, i + Len(t)) = t

\* replace(/[^\w\s]/g, ''): drop what is neither a word character nor a space
RECURSIVE StripPunct(_)
StripPunct(s) ==
  IF s = <<>> THEN <<>>
  ELSE IF IsPunct(Head(s)) THEN StripPunct(Tail(s))
       ELSE <<Head(s)>> \o StripPunct(Tail(s))

\* split(/\s+/): the pieces between maximal runs of spaces, as a set
RECURSIVE SplitWords(_, _, _)
SplitWords(s, cur, inRun) ==
  IF s = <<>> THEN {cur}
  ELSE IF IsSpace(Head(s))
       THEN IF inRun THEN SplitWords(Tail(s), cur, TRUE)
            ELSE {cur} \cup SplitWords(Tail(s), <<>>, TRUE)
       ELSE SplitWords(Tail(s), Append(cur, Head(s)), FALSE)

WordSet(text) ==
  {w \in SplitWords(StripPunct(toLowerCase(text)), <<>>, FALSE) : Len(w) > 1}

---------------------------------------------------------------------------
(* similarityService.ts *)

calculateJaccardSimilarity(textA, textB) ==
  LET wordsA == WordSet(textA)
      wordsB == WordSet(textB)
      intersection == wordsA \cap wordsB
      union == wordsA \cup wordsB
  IN  IF Cardinality(union) = 0 THEN Zero
      ELSE Rat(Cardinality(intersection), Cardinality(union))

RECURSIVE Dot(_, _)
Dot(a, b) == IF a = <<>> THEN 0 ELSE Head(a) * Head(b) + Dot(Tail(a), Tail(b))

calculateCosineSimilarity(vecA, vecB) ==
  IF Len(vecA) # Len(vecB) THEN Zero
  ELSE LET normA == Dot(vecA, vecA)
           normB == Dot(vecB, vecB)
       IN  IF normA = 0 \/ normB = 0 THEN Zero
           ELSE Rat(Dot(vecA, vecB), Sqrt(normA) * Sqrt(normB))

\* The embedding field of a chunk: NoEmbedding when the row carries none
NoEmbedding == <<"none">>

VectorWeightInCombined == <<8, 10>>

\* lines 100-112: the combined similarity of a candidate with one selected chunk
CombinedSimilarity(candidate, selected) ==
  LET textSimilarity == calculateJaccardSimilarity(candidate.content, selected.content)
      vectorSimilarity ==
        IF candidate.embedding # NoEmbedding /\ selected.embedding # NoEmbedding
        THEN calculateCosineSimilarity(candidate.embedding, selected.embedding)
        ELSE Zero
  IN  RMax(textSimilarity, RMul(vectorSimilarity, VectorWeightInCombined))

RECURSIVE MaxSimilarity(_, _, _)
MaxSimilarity(candidate, selectedChunks, acc) ==
  IF selectedChunks = <<>> THEN acc
  ELSE MaxSimilarity(candidate, Tail(selectedChunks),
                     RMax(acc, CombinedSimilarity(candidate, Head(selectedChunks))))

\* line 116
MMRScore(candidate, selectedChunks, lambda) ==
  RSub(RMul(lambda, OrZero(candidate.similarity)),
       RMul(RSub(One, lambda), MaxSimilarity(candidate, selectedChunks, Zero)))

\* lines 74-83: index (1-based) of the first chunk of highest relevance;
\* bestIndex starts at 0 (here 1) and bestScore at -1
RECURSIVE SeedScan(_, _, _, _)
SeedScan(remainingChunks, i, bestIndex, bestScore) ==
  IF i > Len(remainingChunks) THEN bestIndex
  ELSE LET relevanceScore == OrZero(remainingChunks[i].similarity)
       IN  IF RLt(bestScore, relevanceScore)
           THEN SeedScan(remainingChunks, i + 1, i, relevanceScore)
           ELSE SeedScan(remainingChunks, i + 1, bestIndex, bestScore)

LastBestIndex(remainingChunks) ==
  CHOOSE i \in 1..Len(remainingChunks) :
    /\ \A j \in 1..Len(remainingChunks) :
          RLe(OrZero(remainingChunks[j].similarity), OrZero(remainingChunks[i].similarity))
    /\ \A j \in (i + 1)..Len(remainingChunks) :
          RLt(OrZero(remainingChunks[j].similarity), OrZero(remainingChunks[i].similarity))

SeedIndex(remainingChunks) == SeedScan(remainingChunks, 1, 1, MinusOne)

\* lines 90-122: index (1-based) of the best MMR candidate, 0 for the code's -1
RECURSIVE MMRScan(_, _, _, _, _, _)
MMRScan(remainingChunks, selectedChunks, lambda, i, bestMMRIndex, bestMMRScore) ==
  IF i > Len(remainingChunks) THEN bestMMRIndex
  ELSE LET mmrScore == MMRScore(remainingChunks[i], selectedChunks, lambda)
       IN  IF RLt(bestMMRScore, mmrScore)
           THEN MMRScan(remainingChunks, selectedChunks, lambda, i + 1, i, mmrScore)
           ELSE MMRScan(remainingChunks, selectedChunks, lambda, i + 1,
                        bestMMRIndex, bestMMRScore)

BestMMRIndex(remainingChunks, selectedChunks, lambda) ==
  MMRScan(remainingChunks, selectedChunks, lambda, 1, 0, MinusOne)

contentThresholdWide == <<9, 10>>

\* line 141
contentThreshold == <<8, 10>>

\* lines 144-153: is chunk a near-duplicate of a chunk already kept
IsDuplicate(chunk, deduplicatedChunks) ==
  \E k \in 1..Len(deduplicatedChunks) :
     RLt(contentThreshold,
         calculateJaccardSimilarity(chunk.content, deduplicatedChunks[k].content))

PutFirst(chunk, deduplicatedChunks) ==
  IF IsDuplicate(chunk, deduplicatedChunks) THEN deduplicatedChunks
  ELSE <<chunk>> \o deduplicatedChunks

\* lines 143-158, one iteration of the outer loop
DedupStep(chunk, deduplicatedChunks) ==
  IF IsDuplicate(chunk, deduplicatedChunks) THEN deduplicatedChunks
  ELSE Append(deduplicatedChunks, chunk)

NeverReturnsEarly(chunks, maxResults) == FALSE

\* line 65
ReturnsUnchanged(chunks, maxResults) == Len(chunks) <= maxResults

RECURSIVE SelectLoop(_, _, _, _)
SelectLoop(selectedChunks, remainingChunks, lambda, maxResults) ==
  IF Len(selectedChunks) < maxResults /\ Len(remainingChunks) > 0
  THEN LET i == BestMMRIndex(remainingChunks, selectedChunks, lambda)
       IN  IF i >= 1
           THEN SelectLoop(Append(selectedChunks, remainingChunks[i]),
                           RemoveAt(remainingChunks, i), lambda, maxResults)
           ELSE selectedChunks
  ELSE selectedChunks

RECURSIVE DedupAll(_, _)
DedupAll(selectedChunks, deduplicatedChunks) ==
  IF selectedChunks = <<>> THEN deduplicatedChunks
  ELSE DedupAll(Tail(selectedChunks), DedupStep(Head(selectedChunks), deduplicatedChunks))

\* lines 54-163 as one function (the step machine below runs the same code
\* one loop iteration at a time)
diversityRerank(chunks, lambda, maxResults) ==
  IF Len(chunks) = 0 THEN <<>>
  ELSE IF ReturnsUnchanged(chunks, maxResults) THEN chunks
  ELSE LET bestIndex == SeedIndex(chunks)
       IN  DedupAll(SelectLoop(<<chunks[bestIndex]>>, RemoveAt(chunks, bestIndex),
                               lambda, maxResults), <<>>)

---------------------------------------------------------------------------
(* searchService.ts: fuseSearchResults *)

\* Math.max(...scores), Math.min(...scores) on a non-empty set of numbers
MaxOf(S) == CHOOSE x \in S : \A y \in S : RLe(y, x)
MinOf(S) == CHOOSE x \in S : \A y \in S : RLe(x, y)

\* lines 180 and 185: the scores above 0 of a channel's list
PositiveScores(scores) ==
  {scores[i] : i \in {k \in 1..Len(scores) : RLt(Zero, scores[k])}}

VectorScoresOf(vectorChunks) ==
  PositiveScores([i \in 1..Len(vectorChunks) |-> OrZero(vectorChunks[i].similarity)])

KeywordScoresOf(keywordChunks) ==
  PositiveScores([i \in 1..Len(keywordChunks) |-> OrZero(keywordChunks[i].keyword_score)])

\* lines 181-182 and 186-187
MaxScore(scores) == IF scores # {} THEN MaxOf(scores) ELSE One
MinScore(scores) == IF scores # {} THEN MinOf(scores) ELSE Zero

\* resultMap is a Map: its entries in insertion order
MapIndex(resultMap, chunkId) ==
  IF \E i \in 1..Len(resultMap) : resultMap[i].id = chunkId
  THEN CHOOSE i \in 1..Len(resultMap) : resultMap[i].id = chunkId
  ELSE 0

MapNeverHas(resultMap, chunkId) == FALSE

\* resultMap.has(chunkId)
MapHas(resultMap, chunkId) == MapIndex(resultMap, chunkId) # 0

\* lines 190-200, one chunk of the vector channel
AddVectorChunk(resultMap, chunk) ==
  IF ~MapHas(resultMap, chunk.id)
  THEN Append(resultMap,
              [id |-> chunk.id, content |-> chunk.content,
               vector_score |-> OrZero(chunk.similarity),
               keyword_score |-> Zero, hybrid_score |-> Zero])
  ELSE resultMap

\* lines 203-218, one chunk of the keyword channel
AddKeywordChunk(resultMap, chunk) ==
  IF MapHas(resultMap, chunk.id)
  THEN [resultMap EXCEPT ![MapIndex(resultMap, chunk.id)].keyword_score =
                            OrZero(chunk.keyword_score)]
  ELSE Append(resultMap,
              [id |-> chunk.id, content |-> chunk.content,
               vector_score |-> Zero,
               keyword_score |-> OrZero(chunk.keyword_score), hybrid_score |-> Zero])

RECURSIVE AddVectorChunks(_, _)
AddVectorChunks(resultMap, vectorChunks) ==
  IF vectorChunks = <<>> THEN resultMap
  ELSE AddVectorChunks(AddVectorChunk(resultMap, Head(vectorChunks)), Tail(vectorChunks))

RECURSIVE AddKeywordChunks(_, _)
AddKeywordChunks(resultMap, keywordChunks) ==
  IF keywordChunks = <<>> THEN resultMap
  ELSE AddKeywordChunks(AddKeywordChunk(resultMap, Head(keywordChunks)), Tail(keywordChunks))

NormalizedVectorScoreFullOnCollapse(chunk, minVectorScore, maxVectorScore) ==
  IF RLt(Zero, chunk.vector_score) /\ RLt(minVectorScore, maxVectorScore)
  THEN RDiv(RSub(chunk.vector_score, minVectorScore),
            RSub(maxVectorScore, minVectorScore))
  ELSE IF RLt(Zero, chunk.vector_score) THEN One
  ELSE Zero

\* lines 224-229
NormalizedVectorScore(chunk, minVectorScore, maxVectorScore) ==
  IF RLt(Zero, chunk.vector_score) /\ RLt(minVectorScore, maxVectorScore)
  THEN RDiv(RSub(chunk.vector_score, minVectorScore),
            RSub(maxVectorScore, minVectorScore))
  ELSE IF RLt(Zero, chunk.vector_score) THEN chunk.vector_score
  ELSE Zero

KeywordCap == <<5, 1>>

\* lines 231-236
NormalizedKeywordScore(chunk, minKeywordScore, maxKeywordScore) ==
  IF RLt(Zero, chunk.keyword_score) /\ RLt(minKeywordScore, maxKeywordScore)
  THEN RDiv(RSub(chunk.keyword_score, minKeywordScore),
            RSub(maxKeywordScore, minKeywordScore))
  ELSE IF RLt(Zero, chunk.keyword_score)
       THEN RMin(RDiv(chunk.keyword_score, KeywordCap), One)
  ELSE Zero

\* lines 239-242
KeywordMatchRatio(content, keywords) ==
  IF Len(keywords) > 0
  THEN Rat(Cardinality({k \in 1..Len(keywords) :
                          includes(toLowerCase(content), toLowerCase(keywords[k]))}),
           Len(keywords))
  ELSE Zero

BaseVectorWeight == <<6, 10>>
BaseKeywordWeight == <<4, 10>>
ShiftedWeight == <<5, 10>>
WeightShiftRatio == <<8, 10>>
BonusRatio == <<5, 10>>
NoBonusStep == <<0, 10>>

BonusStep == <<1, 10>>

InAnyChannel(chunk) == TRUE

\* line 261
InBothChannels(chunk) == RLt(Zero, chunk.vector_score) /\ RLt(Zero, chunk.keyword_score)

UnclampedScore(score) == score

\* line 270: Math.min(hybridScore + bonus, 1.0)
ClampScore(score) == RMin(score, One)

\* lines 222-279: the scored copy of one map entry
ScoreChunk(chunk, keywords, minVectorScore, maxVectorScore, minKeywordScore, maxKeywordScore) ==
  LET normalizedVectorScore == NormalizedVectorScore(chunk, minVectorScore, maxVectorScore)
      normalizedKeywordScore == NormalizedKeywordScore(chunk, minKeywordScore, maxKeywordScore)
      keywordMatchRatio == KeywordMatchRatio(chunk.content, keywords)
      shifted == RLt(WeightShiftRatio, keywordMatchRatio)
      vectorWeight == IF shifted THEN ShiftedWeight ELSE BaseVectorWeight
      keywordWeight == IF shifted THEN ShiftedWeight ELSE BaseKeywordWeight
      hybridScore == RAdd(RMul(normalizedVectorScore, vectorWeight),
                          RMul(normalizedKeywordScore, keywordWeight))
      bonusBoth == IF InBothChannels(chunk) THEN BonusStep ELSE Zero
      bonusRatio == IF RLt(BonusRatio, keywordMatchRatio)
                    THEN RMul(keywordMatchRatio, BonusStep) ELSE Zero
      finalScore == ClampScore(RAdd(hybridScore, RAdd(bonusBoth, bonusRatio)))
  IN  [id |-> chunk.id, content |-> chunk.content,
       vector_score |-> chunk.vector_score,
       keyword_score |-> chunk.keyword_score,
       hybrid_score |-> finalScore,
       keyword_match_ratio |-> keywordMatchRatio,
       normalized_vector_score |-> normalizedVectorScore,
       normalized_keyword_score |-> normalizedKeywordScore]

NearTie == <<1, 100>>

Sign(x) == IF x[1] < 0 THEN -1 ELSE IF x[1] > 0 THEN 1 ELSE 0

\* lines 280-287: the sign of the comparator's result
CompareFused(a, b) ==
  IF RLt(NearTie, RAbs(RSub(a.hybrid_score, b.hybrid_score)))
  THEN Sign(RSub(b.hybrid_score, a.hybrid_score))
  ELSE Sign(RSub(b.keyword_match_ratio, a.keyword_match_ratio))

CompareRankedByRatioOnly(a, b) == Sign(RSub(b.match_ratio, a.match_ratio))

\* searchService.ts lines 392-403: the sign of the lexical comparator's result
CompareRanked(a, b) ==
  IF a.match_ratio # b.match_ratio
  THEN Sign(RSub(b.match_ratio, a.match_ratio))
  ELSE IF a.keyword_score # b.keyword_score
       THEN Sign(RSub(b.keyword_score, a.keyword_score))
       ELSE IF b.created_at < a.created_at THEN -1
            ELSE IF b.created_at > a.created_at THEN 1 ELSE 0

\* The comparator handed to sort: "fused" (lines 280-287) or "ranked" (392-403)
Compare(kind, a, b) ==
  IF kind = "fused" THEN CompareFused(a, b) ELSE CompareRanked(a, b)

(* Array.prototype.sort as Node's engine runs it on an array of fewer than   *)
(* 64 elements: the initial run is found (and reversed when it is strictly   *)
(* descending), then every further element is placed by binary insertion.    *)
(* With a consistent comparator this is the stable sort; the comparator of   *)
(* lines 280-287 is not transitive, and the result then depends on exactly   *)
(* these comparisons.                                                        *)
RECURSIVE CountRun(_, _, _, _, _)
CountRun(kind, arr, idx, isDescending, runLength) ==
  IF idx > Len(arr) THEN runLength
  ELSE LET order == Compare(kind, arr[idx], arr[idx - 1])
       IN  IF (isDescending /\ order >= 0) \/ (~isDescending /\ order < 0)
           THEN runLength
           ELSE CountRun(kind, arr, idx + 1, isDescending, runLength + 1)

Reverse(s) == [i \in 1..Len(s) |-> s[Len(s) + 1 - i]]

RECURSIVE InsertionPoint(_, _, _, _, _)
InsertionPoint(kind, arr, pivot, left, right) ==
  IF left < right
  THEN LET mid == left + ((right - left) \div 2)
       IN  IF Compare(kind, pivot, arr[mid]) < 0
           THEN InsertionPoint(kind, arr, pivot, left, mid)
           ELSE InsertionPoint(kind, arr, pivot, mid + 1, right)
  ELSE left

RECURSIVE BinaryInsertionSort(_, _, _)
BinaryInsertionSort(kind, arr, start) ==
  IF start > Len(arr) THEN arr
  ELSE LET pivot == arr[start]
           left == InsertionPoint(kind, arr, pivot, 1, start)
       IN  BinaryInsertionSort(kind,
             SubSeq(arr, 1, left - 1) \o <<pivot>> \o SubSeq(arr, left, start - 1)
               \o SubSeq(arr, start + 1, Len(arr)),
             start + 1)

Sort(kind, arr) ==
  IF Len(arr) < 2 THEN arr
  ELSE LET isDescending == Compare(kind, arr[2], arr[1]) < 0
           runLength == CountRun(kind, arr, 3, isDescending, 2)
           made == IF isDescending
                   THEN Reverse(SubSeq(arr, 1, runLength))
                          \o SubSeq(arr, runLength + 1, Len(arr))
                   ELSE arr
       IN  BinaryInsertionSort(kind, made, runLength + 1)

LowestFirst(arr) == Reverse(Sort("fused", arr))

SortFused(arr) == Sort("fused", arr)

KeepAll(sorted, limit) == sorted

\* line 288: .slice(0, limit)
Truncate(sorted, limit) == Slice(sorted, limit)

\* lines 175-291
fuseSearchResults(vectorChunks, keywordChunks, keywords, limit) ==
  LET vectorScores == VectorScoresOf(vectorChunks)
      keywordScores == KeywordScoresOf(keywordChunks)
      resultMap == AddKeywordChunks(AddVectorChunks(<<>>, vectorChunks), keywordChunks)
      scored == [i \in 1..Len(resultMap) |->
                   ScoreChunk(resultMap[i], keywords,
                              MinScore(vectorScores), MaxScore(vectorScores),
                              MinScore(keywordScores), MaxScore(keywordScores))]
  IN  Truncate(SortFused(scored), limit)

---------------------------------------------------------------------------
(* searchService.ts: fallbackKeywordSearch *)

\* line 314: the raw query stands in for an empty term list
SearchTerms(query, keywords) == IF Len(keywords) > 0 THEN keywords ELSE <<query>>

\* lines 376-378: the matches of a global regular expression built from the
\* escaped term, that is its occurrences from left to right without overlap
RECURSIVE CountMatches(_, _)
CountMatches(content, term) ==
  IF Len(content) < Len(term) THEN 0
  ELSE IF SubSeq(content, 1, Len(term)) = term
       THEN 1 + CountMatches(SubSeq(content, Len(term) + 1, Len(content)), term)
       ELSE CountMatches(Tail(content), term)

\* lines 365-391: one row of the store with its scores
RankChunk(chunk, searchTerms) ==
  LET content == toLowerCase(chunk.content)
      matched == {k \in 1..Len(searchTerms) : includes(content, toLowerCase(searchTerms[k]))}
      RECURSIVE Total(_)
      Total(k) == IF k > Len(searchTerms) THEN 0
                  ELSE (IF k \in matched
                        THEN CountMatches(content, toLowerCase(searchTerms[k]))
                        ELSE 0) + Total(k + 1)
  IN  [id |-> chunk.id, content |-> chunk.content, created_at |-> chunk.created_at,
       keyword_score |-> <<Total(1), 1>>,
       match_ratio |-> IF Len(searchTerms) > 0
                       THEN Rat(Cardinality(matched), Len(searchTerms)) ELSE Zero,
       matched_keywords |-> Cardinality(matched)]

\* lines 352-404, 423 and 425-428: what fallbackKeywordSearch returns for the
\* store's reply (an error, an exception raised inside the try block, or the
\* rows it found)
RankReply(reply, searchTerms, limit) ==
  IF reply.error \/ reply.raised THEN <<>>
  ELSE IF Len(reply.rows) = 0 THEN <<>>
  ELSE Slice(Sort("ranked", [i \in 1..Len(reply.rows) |-> RankChunk(reply.rows[i], searchTerms)]),
             limit)

---------------------------------------------------------------------------
(* keywordService.ts extractKeywords, openrouterService extractKeywordsWithGPT *)

\* String.prototype.trim
RECURSIVE TrimStart(_)
TrimStart(text) ==
  IF text # <<>> /\ IsSpace(Head(text)) THEN TrimStart(Tail(text)) ELSE text

RECURSIVE TrimEnd(_)
TrimEnd(text) ==
  IF text # <<>> /\ IsSpace(text[Len(text)])
  THEN TrimEnd(SubSeq(text, 1, Len(text) - 1)) ELSE text

Trim(text) == TrimEnd(TrimStart(text))

\* part_012 line 245: the separators of the split pattern: the comma, the
\* fullwidth comma U+FF0C and the ideographic comma U+3001, each one character
IsSeparator(c) == c \in {",", "U+FF0C", "U+3001"}

\* part_012 line 245: keywordsText.split(separators); current is the piece read
\* so far
RECURSIVE SplitAtSeparators(_, _)
SplitAtSeparators(text, current) ==
  IF text = <<>> THEN <<current>>
  ELSE IF IsSeparator(Head(text))
       THEN <<current>> \o SplitAtSeparators(Tail(text), <<>>)
       ELSE SplitAtSeparators(Tail(text), Append(current, Head(text)))

\* part_012 line 247: kw.length > 0 && kw.length <= 20
KeptKeyword(kw) == Len(kw) > 0 /\ Len(kw) <= 20

AllKeywords(list, maxKeywords) == list

\* part_012 line 248: filteredKeywords.slice(0, maxKeywords)
FirstKeywords(list, maxKeywords) == Slice(list, maxKeywords)

\* part_012 lines 242-248: the keywords parsed from the reply's text
ParseKeywords(content, maxKeywords) ==
  LET keywordsText == Trim(content)
      splitKeywords == SplitAtSeparators(keywordsText, <<>>)
      trimmedKeywords == [i \in 1..Len(splitKeywords) |-> Trim(splitKeywords[i])]
      filteredKeywords == SelectSeq(trimmedKeywords, KeptKeyword)
  IN  FirstKeywords(filteredKeywords, maxKeywords)

\* part_012 lines 195-264: reply is what chatCompletion did: it threw, or it
\* returned a response whose first choice has a content or none
extractKeywordsWithGPT(reply, maxKeywords) ==
  IF reply.failed THEN [raised |-> FALSE, keywords |-> <<>>]
  ELSE [raised |-> FALSE,
        keywords |-> ParseKeywords(IF reply.hasContent THEN reply.content ELSE <<>>,
                                   maxKeywords)]

\* keywordService.ts line 17
maxKeywordsRequested == 8

\* keywordService.ts lines 9-32
extractKeywords(reply) ==
  LET gptResult == extractKeywordsWithGPT(reply, maxKeywordsRequested)
  IN  IF gptResult.raised THEN [raised |-> FALSE, keywords |-> <<>>]
      ELSE IF Len(gptResult.keywords) > 0
           THEN [raised |-> FALSE, keywords |-> gptResult.keywords]
           ELSE [raised |-> FALSE, keywords |-> <<>>]

---------------------------------------------------------------------------
(* State *)

\* One call of diversityRerank: its arguments, its locals, its return value
VARIABLES rPc, chunks, lambda, maxResults, selectedChunks, remainingChunks,
          dedupPos, deduplicatedChunks, rerankOut, loopIterations

rerankVars == <<rPc, chunks, lambda, maxResults, selectedChunks, remainingChunks,
                dedupPos, deduplicatedChunks, rerankOut, loopIterations>>

\* One call of fuseSearchResults: its arguments and its return value
VARIABLES fusePc, fuseVector, fuseKeyword, fuseTerms, fuseLimit, fused

fuseVars == <<fusePc, fuseVector, fuseKeyword, fuseTerms, fuseLimit, fused>>

\* One call of searchRelevantChunks: its arguments (userId, limit,
\* categoryId), its locals, the two promises of the hybrid path, the requests
\* sent to the stores so far, the rows of the last vector store reply, and
\* how the call ended (path) with which list (result)
VARIABLES pc, userId, limit, categoryId, keywords, queryEmbedding,
          vectorTask, keywordTask, vectorReply, requests, result, path

searchVars == <<pc, userId, limit, categoryId, keywords, queryEmbedding,
                vectorTask, keywordTask, vectorReply, requests, result, path>>

\* One call of extractKeywords: what the chat completion service did, and what
\* the call returned
VARIABLES extractPc, gptReply, extracted

extractVars == <<extractPc, gptReply, extracted>>

\* One POST /completions request: where the handler is, the request body, the
\* status of the response sent (0 while none is sent), and the number of
\* calls made to the answering model
VARIABLES routePc, body, status, llmCalls

routeVars == <<routePc, body, status, llmCalls>>

\* The objects and arrays of a caller that passes the same lists to
\* fuseSearchResults and then to diversityRerank: heap[r] is the object behind
\* reference r, arrays[a] the references held by array a; before is the heap
\* and the arrays as they were when the calls started
VARIABLES framePc, heap, arrays, frameCall, before, frameOut

frameVars == <<framePc, heap, arrays, frameCall, before, frameOut>>

vars == <<rerankVars, fuseVars, searchVars, extractVars, routeVars, frameVars>>

---------------------------------------------------------------------------
(* diversityRerank, one loop iteration per step *)

\* Longest candidate list, largest maxResults
MaxCandidates == 4
MaxM == 3

Text4 == <<"a","b"," ","c","d"," ","e","f"," ","g","h">>
Text5 == <<"a","b"," ","c","d"," ","e","f"," ","g","h"," ","i","j">>
Text5Loud == <<"A","B",","," ","C","D"," "," ","e","f"," ","G","H"," ","i","j",".">>
Text6 == <<"a","b"," ","c","d"," ","e","f"," ","g","h"," ","i","j"," ","k","l">>
TextOther == <<"z","z"," ","y","y">>
TextLetters == <<"a"," ","b">>

\* The chunks a candidate list is drawn from: id, text, relevance, embedding
RerankPool ==
  { [id |-> 1, content |-> Text5,       similarity |-> <<9, 10>>, embedding |-> NoEmbedding],
    [id |-> 2, content |-> Text6,       similarity |-> <<8, 10>>, embedding |-> <<1, 0>>],
    [id |-> 3, content |-> Text4,       similarity |-> <<8, 10>>, embedding |-> <<3, 4>>],
    [id |-> 4, content |-> Text5Loud,   similarity |-> <<9, 10>>, embedding |-> <<4, 3>>],
    [id |-> 5, content |-> TextOther,   similarity |-> Absent,    embedding |-> <<1, 0>>],
    [id |-> 6, content |-> TextLetters, similarity |-> <<5, 10>>, embedding |-> <<0, 1, 0>>] }

Lambdas == {Zero, <<7, 10>>, One}

RerankIdle ==
  /\ rPc = "idle" /\ chunks = <<>> /\ lambda = Zero /\ maxResults = 0
  /\ selectedChunks = <<>> /\ remainingChunks = <<>> /\ dedupPos = 0
  /\ deduplicatedChunks = <<>> /\ rerankOut = <<>> /\ loopIterations = 0

RerankInit ==
  /\ rPc = "call"
  /\ chunks \in SeqsUpTo(RerankPool, MaxCandidates)
  /\ lambda \in Lambdas
  /\ maxResults \in 0..MaxM
  /\ selectedChunks = <<>>
  /\ remainingChunks = <<>>
  /\ dedupPos = 0
  /\ deduplicatedChunks = <<>>
  /\ rerankOut = <<>>
  /\ loopIterations = 0

\* lines 60-62
RerankReturnEmpty ==
  /\ rPc = "call"
  /\ Len(chunks) = 0
  /\ rerankOut' = <<>>
  /\ rPc' = "done"
  /\ UNCHANGED <<chunks, lambda, maxResults, selectedChunks, remainingChunks,
                 dedupPos, deduplicatedChunks, loopIterations>>
  /\ UNCHANGED <<fuseVars, searchVars, extractVars, routeVars, frameVars>>

\* lines 65-68
RerankReturnUnchanged ==
  /\ rPc = "call"
  /\ Len(chunks) # 0
  /\ ReturnsUnchanged(chunks, maxResults)
  /\ rerankOut' = chunks
  /\ rPc' = "done"
  /\ UNCHANGED <<chunks, lambda, maxResults, selectedChunks, remainingChunks,
                 dedupPos, deduplicatedChunks, loopIterations>>
  /\ UNCHANGED <<fuseVars, searchVars, extractVars, routeVars, frameVars>>

\* lines 70-86
RerankSeed ==
  /\ rPc = "call"
  /\ Len(chunks) # 0
  /\ ~ReturnsUnchanged(chunks, maxResults)
  /\ LET bestIndex == SeedIndex(chunks)
     IN  /\ selectedChunks' = <<chunks[bestIndex]>>
         /\ remainingChunks' = RemoveAt(chunks, bestIndex)
  /\ rPc' = "loop"
  /\ UNCHANGED <<chunks, lambda, maxResults, dedupPos, deduplicatedChunks,
                 rerankOut, loopIterations>>
  /\ UNCHANGED <<fuseVars, searchVars, extractVars, routeVars, frameVars>>

LoopCondition == Len(selectedChunks) < maxResults /\ Len(remainingChunks) > 0

\* lines 89-131: one iteration that selects a chunk
RerankSelect ==
  /\ rPc = "loop"
  /\ LoopCondition
  /\ LET i == BestMMRIndex(remainingChunks, selectedChunks, lambda)
     IN  /\ i >= 1
         /\ selectedChunks' = Append(selectedChunks, remainingChunks[i])
         /\ remainingChunks' = RemoveAt(remainingChunks, i)
  /\ loopIterations' = loopIterations + 1
  /\ UNCHANGED <<rPc, chunks, lambda, maxResults, dedupPos, deduplicatedChunks,
                 rerankOut>>
  /\ UNCHANGED <<fuseVars, searchVars, extractVars, routeVars, frameVars>>

\* lines 132-134: no candidate scored above -1, break
RerankBreak ==
  /\ rPc = "loop"
  /\ LoopCondition
  /\ BestMMRIndex(remainingChunks, selectedChunks, lambda) = 0
  /\ rPc' = "dedup"
  /\ dedupPos' = 1
  /\ loopIterations' = loopIterations + 1
  /\ UNCHANGED <<chunks, lambda, maxResults, selectedChunks, remainingChunks,
                 deduplicatedChunks, rerankOut>>
  /\ UNCHANGED <<fuseVars, searchVars, extractVars, routeVars, frameVars>>

\* line 89: the loop condition fails
RerankLoopEnd ==
  /\ rPc = "loop"
  /\ ~LoopCondition
  /\ rPc' = "dedup"
  /\ dedupPos' = 1
  /\ UNCHANGED <<chunks, lambda, maxResults, selectedChunks, remainingChunks,
                 deduplicatedChunks, rerankOut, loopIterations>>
  /\ UNCHANGED <<fuseVars, searchVars, extractVars, routeVars, frameVars>>

\* lines 143-158: one selected chunk is kept or dropped
RerankDedupStep ==
  /\ rPc = "dedup"
  /\ dedupPos <= Len(selectedChunks)
  /\ deduplicatedChunks' = DedupStep(selectedChunks[dedupPos], deduplicatedChunks)
  /\ dedupPos' = dedupPos + 1
  /\ UNCHANGED <<rPc, chunks, lambda, maxResults, selectedChunks, remainingChunks,
                 rerankOut, loopIterations>>
  /\ UNCHANGED <<fuseVars, searchVars, extractVars, routeVars, frameVars>>

\* line 162
RerankReturn ==
  /\ rPc = "dedup"
  /\ dedupPos > Len(selectedChunks)
  /\ rerankOut' = deduplicatedChunks
  /\ rPc' = "done"
  /\ UNCHANGED <<chunks, lambda, maxResults, selectedChunks, remainingChunks,
                 dedupPos, deduplicatedChunks, loopIterations>>
  /\ UNCHANGED <<fuseVars, searchVars, extractVars, routeVars, frameVars>>

RerankNext ==
  \/ RerankReturnEmpty
  \/ RerankReturnUnchanged
  \/ RerankSeed
  \/ RerankSelect
  \/ RerankBreak
  \/ RerankLoopEnd
  \/ RerankDedupStep
  \/ RerankReturn

---------------------------------------------------------------------------
(* diversityRerank run to its return *)

\* The candidates of the runs followed to their end: two passages with the
\* same words and one without a relevance score
LivePool == {c \in RerankPool : c.id \in {1, 4, 5}}

RerankLiveInit ==
  /\ rPc = "call"
  /\ chunks \in SeqsUpTo(LivePool, MaxCandidates)
  /\ lambda \in Lambdas
  /\ maxResults \in 0..MaxM
  /\ selectedChunks = <<>>
  /\ remainingChunks = <<>>
  /\ dedupPos = 0
  /\ deduplicatedChunks = <<>>
  /\ rerankOut = <<>>
  /\ loopIterations = 0

\* One pass through the body of the while loop (lines 89-135), whichever
\* candidate the scan picks: a candidate moves to the selection, or the loop is
\* left by the break
LoopIteration ==
  /\ rPc = "loop"
  /\ LoopCondition
  /\ loopIterations' = loopIterations + 1
  /\ \/ \E i \in 1..Len(remainingChunks) :
          /\ selectedChunks' = Append(selectedChunks, remainingChunks[i])
          /\ remainingChunks' = RemoveAt(remainingChunks, i)
          /\ UNCHANGED <<rPc, dedupPos>>
     \/ /\ rPc' = "dedup"
        /\ dedupPos' = 1
        /\ UNCHANGED <<selectedChunks, remainingChunks>>
  /\ UNCHANGED <<chunks, lambda, maxResults, deduplicatedChunks, rerankOut>>
  /\ UNCHANGED <<fuseVars, searchVars, extractVars, routeVars, frameVars>>

\* One pass through the body of the for loop (lines 143-158), whether the
\* chunk is kept or dropped
DedupIteration ==
  /\ rPc = "dedup"
  /\ dedupPos <= Len(selectedChunks)
  /\ dedupPos' = dedupPos + 1
  /\ deduplicatedChunks' \in {deduplicatedChunks,
                              Append(deduplicatedChunks, selectedChunks[dedupPos])}
  /\ UNCHANGED <<rPc, chunks, lambda, maxResults, selectedChunks, remainingChunks,
                 rerankOut, loopIterations>>
  /\ UNCHANGED <<fuseVars, searchVars, extractVars, routeVars, frameVars>>

\* The steps outside the two loop bodies
RerankControl ==
  \/ RerankReturnEmpty
  \/ RerankReturnUnchanged
  \/ RerankSeed
  \/ RerankLoopEnd
  \/ RerankReturn

---------------------------------------------------------------------------
(* Properties of diversityRerank (RerankSpec) *)

\* The overlap the claims allow between two returned passages: 0.8
ClaimedOverlapLimit == <<8, 10>>

NearDuplicatePair(list) ==
  \E i, j \in 1..Len(list) :
     /\ i < j
     /\ RLt(ClaimedOverlapLimit,
            calculateJaccardSimilarity(list[i].content, list[j].content))

\* C8 as stated: whatever the size of the candidate list, the returned list
\* holds no two passages whose Jaccard text overlap exceeds 0.8.
C8_NoNearDuplicatesAnySize ==
  rPc = "done" => ~NearDuplicatePair(rerankOut)

\* C8 amended: when the candidate list is longer than maxResults (so the
\* selection and the deduplication pass run), the returned list holds no two
\* passages whose Jaccard text overlap exceeds 0.8.
C8_NoNearDuplicatesWhenReranked ==
  (rPc = "done" /\ Len(chunks) > maxResults) => ~NearDuplicatePair(rerankOut)

\* The deduplication pass dropped a selected chunk and kept at least two.
C8_Witness ==
  /\ rPc = "done"
  /\ Len(chunks) > maxResults
  /\ NearDuplicatePair(selectedChunks)
  /\ Len(rerankOut) >= 2
  /\ Len(rerankOut) < Len(selectedChunks)

\* C9: the returned list has at most maxResults passages and at most as many
\* passages as the candidate list, for every maxResults >= 0.
C9_SizeBounded ==
  rPc = "done" =>
    (Len(rerankOut) <= maxResults /\ Len(rerankOut) <= Len(chunks))

\* C10: a candidate list of size <= maxResults is returned as it is (same
\* passages, same order), and reranking the returned list again with the same
\* lambda and maxResults returns it unchanged.
C10_IdentityAndIdempotent ==
  rPc = "done" =>
    /\ (Len(chunks) <= maxResults => rerankOut = chunks)
    /\ diversityRerank(rerankOut, lambda, maxResults) = rerankOut

\* Both cases occur: a short list holding a near-duplicate pair came back
\* untouched, and a long list came back reordered.
C10_Witness ==
  /\ rPc = "done"
  /\ \/ /\ Len(chunks) <= maxResults
        /\ Len(chunks) >= 2
        /\ NearDuplicatePair(chunks)
        /\ RLt(OrZero(chunks[1].similarity), OrZero(chunks[2].similarity))
     \/ /\ Len(chunks) > maxResults
        /\ Len(rerankOut) >= 2
        /\ rerankOut # SubSeq(chunks, 1, Len(rerankOut))

\* C24: with more candidates than maxResults, the selection loop is left only
\* when maxResults passages are selected or no candidate remains
C24_SelectsUntilQuotaOrExhausted ==
  (rPc \in {"dedup", "done"} /\ Len(chunks) > maxResults) =>
    (Len(selectedChunks) >= maxResults \/ Len(remainingChunks) = 0)

\* The candidate an honest scan picks among equals is the earliest one
EarliestBest(scores, i) ==
  /\ \A j \in 1..Len(scores) : RLe(scores[j], scores[i])
  /\ \A j \in 1..(i - 1) : RLt(scores[j], scores[i])

\* list holds passages of the candidate list, in the candidate list's order
InInputOrder(list) ==
  \E f \in [1..Len(list) -> 1..Len(chunks)] :
     /\ \A i \in 1..Len(list) : chunks[f[i]] = list[i]
     /\ \A i, j \in 1..Len(list) : i < j => f[i] < f[j]

SeedIsEarliestMostRelevant ==
  (rPc \in {"loop", "dedup", "done"} /\ Len(chunks) > maxResults) =>
    /\ \E k \in 1..Len(chunks) :
          /\ selectedChunks[1] = chunks[k]
          /\ EarliestBest([j \in 1..Len(chunks) |-> OrZero(chunks[j].similarity)], k)
    /\ InInputOrder(remainingChunks)

SameInputSameOutput ==
  rPc = "done" => rerankOut = diversityRerank(chunks, lambda, maxResults)

StepPicksEarliestBest ==
  RerankSelect =>
    \E i \in 1..Len(remainingChunks) :
       /\ selectedChunks' = Append(selectedChunks, remainingChunks[i])
       /\ remainingChunks' = RemoveAt(remainingChunks, i)
       /\ EarliestBest([j \in 1..Len(remainingChunks) |->
                          MMRScore(remainingChunks[j], selectedChunks, lambda)], i)

\* C25: the first selected passage is the earliest candidate of highest
\* relevance (0 if absent), every MMR step selects the earliest of the
\* remaining candidates with the best MMR score, the remaining candidates stay
\* in input order, and the output is a function of the input
C25_DeterministicEarliestWins ==
  /\ [](SeedIsEarliestMostRelevant /\ SameInputSameOutput)
  /\ [][StepPicksEarliestBest]_vars

\* Candidates 4, 3, 1, 2 with lambda = 1: 4 ties with 1 for the seed and 3 ties
\* with 2 in the last step; the earlier one was selected both times
C25_Witness ==
  /\ rPc = "done"
  /\ lambda = One /\ maxResults = 3
  /\ [i \in 1..Len(chunks) |-> chunks[i].id] = <<4, 3, 1, 2>>
  /\ [i \in 1..Len(selectedChunks) |-> selectedChunks[i].id] = <<4, 1, 3>>

\* Counters stay within the lists: the loop has run at most Len(chunks) - 1
\* times and the deduplication pass is at most one past the last selected chunk
WithinBounds ==
  /\ loopIterations <= IF Len(chunks) = 0 THEN 0 ELSE Len(chunks) - 1
  /\ dedupPos <= Len(selectedChunks) + 1
  /\ rPc = "done" /\ Len(chunks) > maxResults => dedupPos = Len(selectedChunks) + 1

\* An iteration of the selection loop moves exactly one chunk from the
\* remaining candidates to the selection, or leaves the loop
LoopStep ==
  rPc = "loop" =>
    \/ /\ rPc' = "loop"
       /\ loopIterations' = loopIterations + 1
       /\ Len(selectedChunks') = Len(selectedChunks) + 1
       /\ Len(remainingChunks') = Len(remainingChunks) - 1
       /\ \E i \in 1..Len(remainingChunks) :
             /\ selectedChunks' = Append(selectedChunks, remainingChunks[i])
             /\ \A j \in 1..Len(remainingChunks') :
                  remainingChunks'[j] = remainingChunks[IF j < i THEN j ELSE j + 1]
    \/ /\ rPc' = "dedup"
       /\ selectedChunks' = selectedChunks
       /\ remainingChunks' = remainingChunks

\* A step of the deduplication pass visits the next selected chunk, or the
\* pass is over and the function returns
DedupVisit ==
  rPc = "dedup" =>
    \/ /\ rPc' = "dedup"
       /\ dedupPos <= Len(selectedChunks)
       /\ dedupPos' = dedupPos + 1
       /\ selectedChunks' = selectedChunks
    \/ /\ rPc' = "done"
       /\ dedupPos = Len(selectedChunks) + 1

\* C28: diversityRerank terminates; each loop iteration moves one passage or
\* leaves the loop, the loop runs at most Len(chunks) - 1 times, and the
\* deduplication pass visits each selected passage once
C28_Terminates ==
  /\ <>(rPc = "done")
  /\ []WithinBounds
  /\ [][LoopStep /\ DedupVisit]_vars

\* Four candidates, three wanted: two loop iterations, three chunks visited
C28_Witness ==
  /\ rPc = "done"
  /\ Len(chunks) = 4 /\ maxResults = 3
  /\ loopIterations = 2
  /\ Len(selectedChunks) = 3 /\ dedupPos = 4

\* Every element of list is a passage of the candidate list, and no position
\* of the candidate list is used twice
DrawnFromInput(list) ==
  \E f \in [1..Len(list) -> 1..Len(chunks)] :
     /\ \A i \in 1..Len(list) : chunks[f[i]] = list[i]
     /\ \A i, j \in 1..Len(list) : i # j => f[i] # f[j]

\* The relevance of the candidates, 0 where absent
Relevance == [j \in 1..Len(chunks) |-> OrZero(chunks[j].similarity)]

\* C29: the returned list holds only passages of the input, each input
\* position at most once, and with more than maxResults >= 1 candidates its
\* first element is the seed, the candidate of highest relevance
C29_OutputDrawnFromInputSeedFirst ==
  rPc = "done" =>
    /\ DrawnFromInput(rerankOut)
    /\ (Len(chunks) > maxResults /\ maxResults >= 1) =>
          /\ Len(rerankOut) >= 1
          /\ \E k \in 1..Len(chunks) :
                /\ rerankOut[1] = chunks[k]
                /\ \A j \in 1..Len(chunks) : RLe(Relevance[j], Relevance[k])

\* The deduplication pass dropped a selected passage and the seed, which is
\* not the first candidate, leads the output
C29_Witness ==
  /\ rPc = "done"
  /\ Len(chunks) > maxResults /\ maxResults >= 2
  /\ Len(rerankOut) < Len(selectedChunks)
  /\ rerankOut[1] = selectedChunks[1]
  /\ RLt(Relevance[1], OrZero(rerankOut[1].similarity))

---------------------------------------------------------------------------
(* fuseSearchResults applied to every pair of channel lists *)

\* Longest channel list, longest term list, largest limit
MaxChannelRows == 2
MaxTerms == 2
MaxLimit == 2

TermAlpha == <<"a","b">>
TermBeta == <<"C","d">>
Terms == {TermAlpha, TermBeta}

TextAlphaOnly == <<"A","B"," ","z","z">>

PassageIds == {1, 2, 3}

TextAlphaTwice == <<"a","b"," ","a","b"," ","z","z">>

\* The text of a passage: 1 holds both terms, 2 holds alpha only, 3 neither,
\* 4 holds alpha twice
PassageText(id) ==
  CASE id = 1 -> Text5 [] id = 2 -> TextAlphaOnly [] id = 4 -> TextAlphaTwice
    [] OTHER -> TextOther

\* The rows a channel list is drawn from.  A row without a score reads as 0
\* (`chunk.similarity || 0`, `chunk.keyword_score || 0`).
VectorRows ==
  { [id |-> 1, content |-> PassageText(1), similarity |-> <<9, 10>>],
    [id |-> 2, content |-> PassageText(2), similarity |-> <<4, 10>>],
    [id |-> 2, content |-> PassageText(2), similarity |-> <<9, 10>>],
    [id |-> 3, content |-> PassageText(3), similarity |-> Absent] }

KeywordRows ==
  { [id |-> 1, content |-> PassageText(1), keyword_score |-> <<3, 1>>],
    [id |-> 3, content |-> PassageText(3), keyword_score |-> <<1, 1>>],
    [id |-> 1, content |-> PassageText(1), keyword_score |-> <<6, 1>>],
    [id |-> 2, content |-> PassageText(2), keyword_score |-> Absent],
    [id |-> 2, content |-> PassageText(2), keyword_score |-> <<2, 1>>] }

FuseIdle ==
  /\ fusePc = "idle" /\ fuseVector = <<>> /\ fuseKeyword = <<>>
  /\ fuseTerms = <<>> /\ fuseLimit = 0 /\ fused = <<>>

FuseInit ==
  /\ fusePc = "call"
  /\ fuseVector \in SeqsUpTo(VectorRows, MaxChannelRows)
  /\ fuseKeyword \in SeqsUpTo(KeywordRows, MaxChannelRows)
  /\ fuseTerms \in SeqsUpTo(Terms, MaxTerms)
  /\ fuseLimit = 0
  /\ fused = <<>>

\* fuseSearchResults(vectorChunks, keywordChunks, keywords, limit)
FuseCall ==
  /\ fusePc = "call"
  /\ \E n \in 0..MaxLimit :
        /\ fuseLimit' = n
        /\ fused' = fuseSearchResults(fuseVector, fuseKeyword, fuseTerms, n)
  /\ fusePc' = "done"
  /\ UNCHANGED <<fuseVector, fuseKeyword, fuseTerms>>
  /\ UNCHANGED <<rerankVars, searchVars, extractVars, routeVars, frameVars>>

FuseNext == FuseCall

---------------------------------------------------------------------------
(* fuseSearchResults on vector channels with closely spaced similarities *)

\* Most rows of the vector channel here
MaxOrderRows == 4

\* Passages that match no term; after min-max normalization the three upper
\* ones score 0.588, 0.594 and 0.6; the last one comes without a similarity
OrderRows ==
  { [id |-> 1, content |-> TextOther, similarity |-> <<300, 1000>>],
    [id |-> 2, content |-> TextOther, similarity |-> <<986, 1000>>],
    [id |-> 3, content |-> TextOther, similarity |-> <<993, 1000>>],
    [id |-> 4, content |-> TextOther, similarity |-> One],
    [id |-> 5, content |-> TextOther, similarity |-> Absent] }

OrderInit ==
  /\ fusePc = "call"
  /\ fuseVector \in SeqsUpTo(OrderRows, MaxOrderRows)
  /\ fuseKeyword = <<>>
  /\ fuseTerms \in {<<>>, <<TermBeta>>}
  /\ fuseLimit \in 0..MaxOrderRows
  /\ fused = <<>>

\* fuseSearchResults(vectorChunks, [], keywords, limit)
OrderCall ==
  /\ fusePc = "call"
  /\ fused' = fuseSearchResults(fuseVector, fuseKeyword, fuseTerms, fuseLimit)
  /\ fusePc' = "done"
  /\ UNCHANGED <<fuseVector, fuseKeyword, fuseTerms, fuseLimit>>
  /\ UNCHANGED <<rerankVars, searchVars, extractVars, routeVars, frameVars>>

OrderNext == OrderCall

---------------------------------------------------------------------------
(* fuseSearchResults on the two-channel scenario *)

\* Largest limit of the scenario
MaxScenarioLimit == 4

Alpha == <<"a","l","p","h","a">>
Beta == <<"b","e","t","a">>

\* Texts holding both terms, alpha only (in capitals), beta only, neither
\* term, and the empty text
ScenarioTexts ==
  { <<"a","l","p","h","a"," ","b","e","t","a">>,
    <<"A","L","P","H","A">>,
    <<"a"," ","b","e","t","a",".">>,
    <<"a","l","p"," ","b","e","t">>,
    <<>> }

\* Vector channel [P1 0.9, P2 0.4], lexical channel [P1 3, P3 1], terms
\* [alpha, beta], any texts
ScenarioInit ==
  /\ fusePc = "call"
  /\ \E t1, t2, t3 \in ScenarioTexts :
        /\ fuseVector = << [id |-> 1, content |-> t1, similarity |-> <<9, 10>>],
                           [id |-> 2, content |-> t2, similarity |-> <<4, 10>>] >>
        /\ fuseKeyword = << [id |-> 1, content |-> t1, keyword_score |-> <<3, 1>>],
                            [id |-> 3, content |-> t3, keyword_score |-> <<1, 1>>] >>
  /\ fuseTerms = <<Alpha, Beta>>
  /\ fuseLimit \in 0..MaxScenarioLimit
  /\ fused = <<>>

\* fuseSearchResults(vectorChunks, keywordChunks, ["alpha","beta"], limit)
ScenarioCall ==
  /\ fusePc = "call"
  /\ fused' = fuseSearchResults(fuseVector, fuseKeyword, fuseTerms, fuseLimit)
  /\ fusePc' = "done"
  /\ UNCHANGED <<fuseVector, fuseKeyword, fuseTerms, fuseLimit>>
  /\ UNCHANGED <<rerankVars, searchVars, extractVars, routeVars, frameVars>>

ScenarioNext == ScenarioCall

\* C23: in the scenario with limit >= 3 the fused list is exactly P1, P2 and
\* P3 with P1 first, whatever the texts are, and no hybrid score exceeds 1.0
C23_ScenarioRanksSharedPassageFirst ==
  (fusePc = "done" /\ fuseLimit >= 3) =>
    /\ Len(fused) = 3
    /\ {fused[i].id : i \in 1..Len(fused)} = {1, 2, 3}
    /\ fused[1].id = 1
    /\ \A i \in 1..Len(fused) : RLe(fused[i].hybrid_score, One)

\* The scenario where P2 and P3 hold both terms and P1 holds none
C23_Witness ==
  /\ fusePc = "done" /\ fuseLimit = 3
  /\ fuseVector[1].content = <<>>
  /\ fuseVector[2].content = <<"a","l","p","h","a"," ","b","e","t","a">>
  /\ fuseKeyword[2].content = <<"a","l","p","h","a"," ","b","e","t","a">>
  /\ Len(fused) = 3
  /\ fused[1].keyword_match_ratio = Zero
  /\ fused[2].keyword_match_ratio = One

---------------------------------------------------------------------------
(* searchRelevantChunks *)

\* Most rows in one reply of a store
MaxStoreRows == 2

\* The raw query text of the call
Query == <<"z","z">>

Users == {"u1", "u2"}

\* categoryId when the caller gives none; Null is the RPC's null filter
NoCategory == "undefined"
Null == "null"
Categories == {NoCategory, "c1"}

\* The stores are external: a reply is an error or any list of rows.  The
\* vector RPC's rows carry a similarity, the text query's rows a created_at.
StoreVectorRows ==
  { [id |-> 1, content |-> PassageText(1), similarity |-> <<9, 10>>],
    [id |-> 2, content |-> PassageText(2), similarity |-> <<4, 10>>] }

StoreTextRows ==
  { [id |-> 1, content |-> PassageText(1), created_at |-> 1],
    [id |-> 3, content |-> PassageText(3), created_at |-> 2],
    [id |-> 2, content |-> PassageText(2), created_at |-> 3],
    [id |-> 4, content |-> PassageText(4), created_at |-> 2] }

StoreError == [error |-> TRUE, rows |-> <<>>]

\* No reply of the vector store yet
NoReply == [error |-> FALSE, rows |-> <<>>]

VectorReplies ==
  {StoreError} \cup {[error |-> FALSE, rows |-> r] : r \in SeqsUpTo(StoreVectorRows, MaxStoreRows)}

\* The text query answers with an error, or the client or a later step of the
\* try block raises, or rows come back
TextStoreError == [error |-> TRUE, raised |-> FALSE, rows |-> <<>>]
TextStoreRaises == [error |-> FALSE, raised |-> TRUE, rows |-> <<>>]

TextReplies ==
  {TextStoreError, TextStoreRaises} \cup
  {[error |-> FALSE, raised |-> FALSE, rows |-> r] : r \in SeqsUpTo(StoreTextRows, MaxStoreRows)}

LexicalOutcomeRejecting(reply, searchTerms, count) ==
  [status |-> IF reply.error \/ reply.raised THEN "rejected" ELSE "fulfilled",
   value |-> RankReply(reply, searchTerms, count),
   storeError |-> reply.error \/ reply.raised]

\* lines 302-429: the promise of fallbackKeywordSearch(query, userId, count,
\* categoryId, keywords) once the store has replied; it is always fulfilled
LexicalOutcome(reply, searchTerms, count) ==
  [status |-> "fulfilled",
   value |-> RankReply(reply, searchTerms, count),
   storeError |-> reply.error \/ reply.raised]

NoFilter(category) == Null

\* lines 140 and 337-339: the category filter of a request
CategoryFilter(category) == IF category # NoCategory THEN category ELSE Null

\* lines 134-141: the RPC search_similar_chunks_with_category
VectorRequest(embedding, owner, category, count) ==
  [store |-> "vector", query_embedding |-> embedding, target_user_id |-> owner, match_threshold |-> <<3, 10>>,
   match_count |-> count, category_filter |-> CategoryFilter(category), terms |-> <<>>]

\* lines 318-350: the query on document_chunks; count is fallbackKeywordSearch's
\* own limit argument, the store is asked for twice as many rows
TextRequest(owner, category, searchTerms, count) ==
  [store |-> "lexical", target_user_id |-> owner, match_count |-> count * 2, category_filter |-> CategoryFilter(category),
   terms |-> searchTerms]

\* lines 143-148 and 164: what performVectorSearchWithEmbedding returns for a
\* reply without error (with an error it throws)
VectorRowsOf(reply) == reply.rows

Idle == [status |-> "idle", value |-> <<>>, storeError |-> FALSE]

SearchIdle ==
  /\ pc = "idle" /\ userId = "u1" /\ limit = 0 /\ categoryId = NoCategory
  /\ keywords = <<>> /\ queryEmbedding = "none"
  /\ vectorTask = Idle /\ keywordTask = Idle /\ vectorReply = NoReply
  /\ requests = <<>> /\ result = <<>> /\ path = "none"

SearchInit ==
  /\ pc = "extract"
  /\ userId \in Users
  /\ limit \in 0..MaxLimit
  /\ categoryId \in Categories
  /\ keywords = <<>>
  /\ queryEmbedding = "none"
  /\ vectorTask = Idle
  /\ keywordTask = Idle
  /\ vectorReply = NoReply
  /\ requests = <<>>
  /\ result = <<>>
  /\ path = "none"

\* line 17; keywordService.ts lines 9-32: a list of terms, empty on failure
ExtractKeywords ==
  /\ pc = "extract"
  /\ keywords' \in SeqsUpTo(Terms, MaxTerms)
  /\ pc' = "embed"
  /\ UNCHANGED <<userId, limit, categoryId, queryEmbedding, vectorTask, keywordTask,
                 vectorReply, requests, result, path>>
  /\ UNCHANGED <<rerankVars, fuseVars, extractVars, routeVars, frameVars>>

\* line 21; embeddingService.ts lines 14-19: generateQueryEmbedding returns
\* the vector of the embedding client.  "empty" is a vector of length 0, which
\* the guard of line 23 provides for (the bundled client itself rejects any
\* vector that has not 1024 entries)
GenerateEmbedding ==
  /\ pc = "embed"
  /\ queryEmbedding' \in {"vector", "empty"}
  /\ pc' = "branch"
  /\ UNCHANGED <<userId, limit, categoryId, keywords, vectorTask, keywordTask,
                 vectorReply, requests, result, path>>
  /\ UNCHANGED <<rerankVars, fuseVars, extractVars, routeVars, frameVars>>

\* line 21; embeddingService.ts lines 21-28: the embedding service fails,
\* generateQueryEmbedding throws, and nothing in searchRelevantChunks catches it
EmbeddingFails ==
  /\ pc = "embed"
  /\ queryEmbedding' = "failed"
  /\ path' = "raised"
  /\ pc' = "done"
  /\ UNCHANGED <<userId, limit, categoryId, keywords, vectorTask, keywordTask,
                 vectorReply, requests, result>>
  /\ UNCHANGED <<rerankVars, fuseVars, extractVars, routeVars, frameVars>>

EmbeddingNeverMissing == FALSE

\* line 23
EmbeddingMissing == queryEmbedding = "empty"

SkipsEmptyKeywordBranch(terms) == FALSE

\* line 29
KeywordsEmpty(terms) == Len(terms) = 0

\* lines 23-26: return await fallbackKeywordSearch(query, userId, limit,
\* categoryId, keywords), outside any try block
LexicalOnly ==
  /\ pc = "branch"
  /\ EmbeddingMissing
  /\ LET searchTerms == SearchTerms(Query, keywords)
     IN  /\ requests' = Append(requests, TextRequest(userId, categoryId, searchTerms, limit))
         /\ \E reply \in TextReplies :
               LET outcome == LexicalOutcome(reply, searchTerms, limit)
               IN  /\ keywordTask' = outcome
                   /\ result' = IF outcome.status = "fulfilled" THEN outcome.value ELSE <<>>
                   /\ path' = IF outcome.status = "fulfilled" THEN "lexicalOnly" ELSE "raised"
  /\ pc' = "done"
  /\ UNCHANGED <<userId, limit, categoryId, keywords, queryEmbedding, vectorTask,
                 vectorReply>>
  /\ UNCHANGED <<rerankVars, fuseVars, extractVars, routeVars, frameVars>>

UnguardedVectorSearch(reply) ==
  [raised |-> reply.error, value |-> IF reply.error THEN <<>> ELSE VectorRowsOf(reply)]

\* lines 31-38: the vector search inside its try block; the catch returns []
GuardedVectorSearch(reply) ==
  [raised |-> FALSE, value |-> IF reply.error THEN <<>> ELSE VectorRowsOf(reply)]

\* lines 29-39
VectorOnly ==
  /\ pc = "branch"
  /\ ~EmbeddingMissing
  /\ KeywordsEmpty(keywords)
  /\ requests' = Append(requests, VectorRequest(queryEmbedding, userId, categoryId, limit))
  /\ \E reply \in VectorReplies :
        /\ vectorReply' = reply
        /\ result' = GuardedVectorSearch(reply).value
        /\ path' = IF GuardedVectorSearch(reply).raised THEN "raised" ELSE "vectorOnly"
  /\ pc' = "done"
  /\ UNCHANGED <<userId, limit, categoryId, keywords, queryEmbedding, vectorTask,
                 keywordTask>>
  /\ UNCHANGED <<rerankVars, fuseVars, extractVars, routeVars, frameVars>>

\* lines 43-46: both searches are called, each runs to its first await and
\* sends its request; Promise.allSettled then waits for the two promises
StartHybrid ==
  /\ pc = "branch"
  /\ ~EmbeddingMissing
  /\ ~KeywordsEmpty(keywords)
  /\ requests' = requests \o
        << VectorRequest(queryEmbedding, userId, categoryId, limit * 2),
           TextRequest(userId, categoryId, SearchTerms(Query, keywords), limit * 2) >>
  /\ vectorTask' = [Idle EXCEPT !.status = "pending"]
  /\ keywordTask' = [Idle EXCEPT !.status = "pending"]
  /\ pc' = "hybrid"
  /\ UNCHANGED <<userId, limit, categoryId, keywords, queryEmbedding, vectorReply,
                 result, path>>
  /\ UNCHANGED <<rerankVars, fuseVars, extractVars, routeVars, frameVars>>

\* lines 134-164: the vector store replies; an error rejects the promise
VectorSettles ==
  /\ pc = "hybrid"
  /\ vectorTask.status = "pending"
  /\ \E reply \in VectorReplies :
        /\ vectorReply' = reply
        /\ vectorTask' = IF reply.error
                         THEN [status |-> "rejected", value |-> <<>>, storeError |-> TRUE]
                         ELSE [status |-> "fulfilled", value |-> VectorRowsOf(reply),
                               storeError |-> FALSE]
  /\ UNCHANGED <<pc, userId, limit, categoryId, keywords, queryEmbedding, keywordTask,
                 requests, result, path>>
  /\ UNCHANGED <<rerankVars, fuseVars, extractVars, routeVars, frameVars>>

\* lines 348-428: the text store replies; fallbackKeywordSearch fulfils its
\* promise with the ranked rows, and with [] when the store reports an error
KeywordSettles ==
  /\ pc = "hybrid"
  /\ keywordTask.status = "pending"
  /\ \E reply \in TextReplies :
        keywordTask' = LexicalOutcome(reply, SearchTerms(Query, keywords), limit * 2)
  /\ UNCHANGED <<pc, userId, limit, categoryId, keywords, queryEmbedding, vectorTask,
                 vectorReply, requests, result, path>>
  /\ UNCHANGED <<rerankVars, fuseVars, extractVars, routeVars, frameVars>>

AnySettled ==
  \/ vectorTask.status \in {"fulfilled", "rejected"}
  \/ keywordTask.status \in {"fulfilled", "rejected"}

\* Promise.allSettled has resolved
BothSettled ==
  /\ vectorTask.status \in {"fulfilled", "rejected"}
  /\ keywordTask.status \in {"fulfilled", "rejected"}

\* lines 49-50
SettledValue(task) == IF task.status = "fulfilled" THEN task.value ELSE <<>>

NeverBothEmpty == FALSE

\* line 80
BothEmpty == Len(SettledValue(vectorTask)) = 0 /\ Len(SettledValue(keywordTask)) = 0

\* lines 80-83
HybridEmpty ==
  /\ pc = "hybrid"
  /\ BothSettled
  /\ BothEmpty
  /\ result' = <<>>
  /\ path' = "hybridEmpty"
  /\ pc' = "done"
  /\ UNCHANGED <<userId, limit, categoryId, keywords, queryEmbedding, vectorTask,
                 keywordTask, vectorReply, requests>>
  /\ UNCHANGED <<rerankVars, fuseVars, extractVars, routeVars, frameVars>>

\* lines 86-90
HybridFuse ==
  /\ pc = "hybrid"
  /\ BothSettled
  /\ ~BothEmpty
  /\ result' = fuseSearchResults(SettledValue(vectorTask), SettledValue(keywordTask),
                                 keywords, limit)
  /\ path' = "hybrid"
  /\ pc' = "done"
  /\ UNCHANGED <<userId, limit, categoryId, keywords, queryEmbedding, vectorTask,
                 keywordTask, vectorReply, requests>>
  /\ UNCHANGED <<rerankVars, fuseVars, extractVars, routeVars, frameVars>>

HybridThrowsToCaller ==
  /\ pc = "hybrid"
  /\ BothSettled
  /\ ~BothEmpty
  /\ path' = "raised"
  /\ pc' = "done"
  /\ UNCHANGED <<userId, limit, categoryId, keywords, queryEmbedding, vectorTask,
                 keywordTask, vectorReply, requests, result>>
  /\ UNCHANGED <<rerankVars, fuseVars, extractVars, routeVars, frameVars>>

\* lines 92-94: something in lines 54-90 throws while the rows of a channel are
\* logged or fused (a row without content at line 241, the engine's RangeError
\* when a list is too long to spread into Math.max at line 181); with both
\* lists empty lines 49-83 touch no row.  The try block's vectorResults and
\* keywordResults go out of scope
HybridThrows ==
  /\ pc = "hybrid"
  /\ BothSettled
  /\ ~BothEmpty
  /\ vectorTask' = Idle
  /\ keywordTask' = Idle
  /\ pc' = "fallback"
  /\ UNCHANGED <<userId, limit, categoryId, keywords, queryEmbedding, vectorReply,
                 requests, result, path>>
  /\ UNCHANGED <<rerankVars, fuseVars, extractVars, routeVars, frameVars>>

\* lines 95-100
FallbackVectorSearch ==
  /\ pc = "fallback"
  /\ requests' = Append(requests, VectorRequest(queryEmbedding, userId, categoryId, limit))
  /\ \E reply \in VectorReplies :
        /\ vectorReply' = reply
        /\ result' = IF reply.error THEN <<>> ELSE VectorRowsOf(reply)
  /\ path' = "fallback"
  /\ pc' = "done"
  /\ UNCHANGED <<userId, limit, categoryId, keywords, queryEmbedding, vectorTask,
                 keywordTask>>
  /\ UNCHANGED <<rerankVars, fuseVars, extractVars, routeVars, frameVars>>

---------------------------------------------------------------------------
(* Properties of fuseSearchResults *)

InUnitInterval(x) == RLe(Zero, x) /\ RLe(x, One)

\* C5: every passage output by fuseSearchResults has a hybrid_score in [0, 1]
\* and a keyword_match_ratio in [0, 1], for every pair of channel lists and
\* every term list
C5_ScoresInUnitInterval ==
  fusePc = "done" =>
    \A i \in 1..Len(fused) :
      /\ InUnitInterval(fused[i].hybrid_score)
      /\ InUnitInterval(fused[i].keyword_match_ratio)

\* A passage found by both channels that matches every term: its weighted sum
\* plus bonuses reaches the cap
C5_Witness ==
  /\ fusePc = "done"
  /\ \E i \in 1..Len(fused) :
       /\ fused[i].hybrid_score = One
       /\ fused[i].keyword_match_ratio = One
       /\ RLt(Zero, fused[i].vector_score)
       /\ RLt(Zero, fused[i].keyword_score)

IdsOf(list) == {list[i].id : i \in 1..Len(list)}

\* C6: a passage identifier appears at most once in the list returned by
\* fuseSearchResults, also when both channels return the passage (it then
\* carries both its scores) and when one channel's list repeats an identifier
C6_IdsUnique ==
  fusePc = "done" =>
    /\ \A i, j \in 1..Len(fused) : fused[i].id = fused[j].id => i = j
    /\ \A i \in 1..Len(fused) :
         \A v \in 1..Len(fuseVector) : \A k \in 1..Len(fuseKeyword) :
           (fuseVector[v].id = fused[i].id /\ fuseKeyword[k].id = fused[i].id) =>
              /\ \E w \in 1..Len(fuseVector) :
                    /\ fuseVector[w].id = fused[i].id
                    /\ fused[i].vector_score = OrZero(fuseVector[w].similarity)
              /\ \E w \in 1..Len(fuseKeyword) :
                    /\ fuseKeyword[w].id = fused[i].id
                    /\ fused[i].keyword_score = OrZero(fuseKeyword[w].keyword_score)

\* One channel repeats an identifier that the other channel returns too, and
\* the passage is in the output
C6_Witness ==
  /\ fusePc = "done"
  /\ Len(fuseVector) = 2 /\ fuseVector[1].id = fuseVector[2].id
  /\ \E k \in 1..Len(fuseKeyword) : fuseKeyword[k].id = fuseVector[1].id
  /\ fuseVector[1].id \in IdsOf(fused)

\* Passage a came from both channels, passage b from the vector channel only,
\* with the same vector score
BothVersusVectorOnly(a, b) ==
  /\ RLt(Zero, a.vector_score) /\ RLt(Zero, a.keyword_score)
  /\ b.id \notin IdsOf(fuseKeyword)
  /\ b.vector_score = a.vector_score

\* C11: a passage returned by both channels never scores below a passage with
\* the same vector score returned by the vector channel only, whatever their
\* keyword match ratios are
C11_BonusMonotone ==
  fusePc = "done" =>
    \A i, j \in 1..Len(fused) :
      BothVersusVectorOnly(fused[i], fused[j]) =>
        RLe(fused[j].hybrid_score, fused[i].hybrid_score)

\* The vector-only passage matches every term and has its weights shifted,
\* the passage of both channels matches none and has the minimum keyword score
C11_Witness ==
  /\ fusePc = "done"
  /\ \E i, j \in 1..Len(fused) :
       /\ BothVersusVectorOnly(fused[i], fused[j])
       /\ fused[i].keyword_match_ratio = Zero
       /\ fused[j].keyword_match_ratio = One
       /\ RLe(fused[i].normalized_keyword_score, <<2, 5>>)

\* C12: the list returned by fuseSearchResults is ordered by hybrid_score
\* descending: of two output passages whose hybrid_scores differ by more than
\* 0.01 the higher-scored one comes first
C12_HigherScoreFirst ==
  fusePc = "done" =>
    \A i, j \in 1..Len(fused) :
      (i < j) => ~RLt(NearTie, RSub(fused[j].hybrid_score, fused[i].hybrid_score))

\* The non-zero vector scores of the vector channel
NonZeroVectorScores ==
  {OrZero(fuseVector[i].similarity) : i \in 1..Len(fuseVector)} \ {Zero}

LeastOf(S) == CHOOSE x \in S : \A y \in S : RLe(x, y)
GreatestOf(S) == CHOOSE x \in S : \A y \in S : RLe(y, x)

\* (x - min S) / (max S - min S)
MinMax(x, S) == RDiv(RSub(x, LeastOf(S)), RSub(GreatestOf(S), LeastOf(S)))

\* C13 as claimed: min-max normalization over the non-zero vector scores, and
\* 1.0 for the passage when only one non-zero vector score exists
C13_CollapsedRangeGivesOne ==
  fusePc = "done" =>
    \A i \in 1..Len(fused) :
      RLt(Zero, fused[i].vector_score) =>
        IF Cardinality(NonZeroVectorScores) = 1
        THEN fused[i].normalized_vector_score = One
        ELSE fused[i].normalized_vector_score =
                MinMax(fused[i].vector_score, NonZeroVectorScores)

\* C13: the vector score is min-max normalized over the non-zero vector
\* scores of the vector channel; when only one non-zero vector score exists
\* the normalized vector score is the passage's vector score itself; a passage
\* without a vector score has normalized vector score 0
C13_CollapsedRangeGivesRawScore ==
  fusePc = "done" =>
    \A i \in 1..Len(fused) :
      IF RLt(Zero, fused[i].vector_score)
      THEN IF Cardinality(NonZeroVectorScores) = 1
           THEN fused[i].normalized_vector_score = fused[i].vector_score
           ELSE /\ fused[i].normalized_vector_score =
                      MinMax(fused[i].vector_score, NonZeroVectorScores)
                /\ InUnitInterval(fused[i].normalized_vector_score)
      ELSE fused[i].normalized_vector_score = Zero

\* Two rows of the vector channel, one of them without a similarity: the only
\* non-zero score is 0.986 and it is the normalized score too
C13_Witness ==
  /\ fusePc = "done"
  /\ Len(fuseVector) = 2
  /\ NonZeroVectorScores = {<<986, 1000>>}
  /\ \E i \in 1..Len(fused) :
       /\ fused[i].vector_score = <<986, 1000>>
       /\ fused[i].normalized_vector_score = <<986, 1000>>
  /\ \E i \in 1..Len(fused) : fused[i].vector_score = Zero

REq(a, b) == a[1] * b[2] = b[1] * a[2]

\* normalized score times its weight, plus the bonus of the match ratio
SingleChannelScore(normalized, baseWeight, ratio) ==
  RAdd(RMul(normalized, IF RLt(<<8, 10>>, ratio) THEN <<5, 10>> ELSE baseWeight),
       IF RLt(<<5, 10>>, ratio) THEN RMul(ratio, <<1, 10>>) ELSE Zero)

\* C14: when one channel's list is empty, every output passage has normalized
\* score 0 for the empty channel and a hybrid_score made of the other
\* channel's normalized score times its weight plus the match-ratio bonus,
\* without the +0.1 of the both-channels bonus
C14_EmptyChannelAddsNothing ==
  fusePc = "done" =>
    /\ fuseKeyword = <<>> =>
         \A i \in 1..Len(fused) :
           /\ fused[i].keyword_score = Zero
           /\ fused[i].normalized_keyword_score = Zero
           /\ REq(fused[i].hybrid_score,
                  SingleChannelScore(fused[i].normalized_vector_score, <<6, 10>>,
                                     fused[i].keyword_match_ratio))
    /\ fuseVector = <<>> =>
         \A i \in 1..Len(fused) :
           /\ fused[i].vector_score = Zero
           /\ fused[i].normalized_vector_score = Zero
           /\ REq(fused[i].hybrid_score,
                  SingleChannelScore(fused[i].normalized_keyword_score, <<4, 10>>,
                                     fused[i].keyword_match_ratio))

\* The lexical channel is empty and a passage of the vector channel matches
\* every term: 0.9 * 0.5 + 0.1
C14_Witness ==
  /\ fusePc = "done"
  /\ fuseKeyword = <<>>
  /\ \E i \in 1..Len(fused) :
       /\ fused[i].keyword_match_ratio = One
       /\ fused[i].normalized_vector_score = <<9, 10>>
       /\ REq(fused[i].hybrid_score, <<55, 100>>)

---------------------------------------------------------------------------
(* Properties of searchRelevantChunks *)

Returned == pc = "done" /\ path # "raised"

LexicalRequests == {i \in 1..Len(requests) : requests[i].store = "lexical"}

\* C1: when generateQueryEmbedding raises, the call skips the vector search
\* and returns the lexical channel's passages; it never ends in an error
C1_EmbeddingFailureDegradesToLexical ==
  (pc = "done" /\ queryEmbedding = "failed") =>
    /\ path = "lexicalOnly"
    /\ LexicalRequests # {}

\* C2 as claimed: with an empty term list and an embedding, the lexical search
\* is still executed with the raw query as its only term
C2_LexicalStillRuns ==
  (Returned /\ Len(keywords) = 0 /\ queryEmbedding = "vector") =>
    \E i \in LexicalRequests : requests[i].terms = <<Query>>

\* C2: with an empty term list and an embedding, the call runs the vector
\* search only and sends no lexical request; the raw query becomes the only
\* search term where the lexical search does run with an empty term list,
\* which is the lexical-only path after an empty embedding
C2_EmptyKeywordsVectorOnly ==
  /\ (Returned /\ Len(keywords) = 0 /\ queryEmbedding = "vector") =>
        /\ path = "vectorOnly"
        /\ LexicalRequests = {}
        /\ Len(requests) = 1 /\ requests[1].store = "vector"
  /\ (pc # "extract" /\ Len(keywords) = 0) =>
        \A i \in LexicalRequests : requests[i].terms = <<Query>>
  /\ (Returned /\ Len(keywords) = 0 /\ queryEmbedding = "empty") =>
        /\ path = "lexicalOnly"
        /\ LexicalRequests = {1}

\* Empty term list, embedding produced, the vector store returns rows
C2_Witness ==
  /\ Returned /\ Len(keywords) = 0 /\ queryEmbedding = "vector"
  /\ Len(result) > 0

Settled(task) == task.status \in {"fulfilled", "rejected"}

\* C3: on the hybrid path both searches have sent their requests before
\* either result is awaited, fusion happens only after both promises have
\* settled in either order, and when one store call fails while the other
\* returns rows the returned list is built from the surviving channel alone
C3_BothLaunchedBothAwaited ==
  /\ (pc = "hybrid" \/ path \in {"hybrid", "hybridEmpty"}) =>
        /\ Len(requests) = 2
        /\ requests[1].store = "vector" /\ requests[2].store = "lexical"
  /\ path \in {"hybrid", "hybridEmpty"} => Settled(vectorTask) /\ Settled(keywordTask)
  /\ (path = "hybrid" /\ vectorTask.storeError /\ Len(keywordTask.value) > 0) =>
        /\ result = fuseSearchResults(<<>>, keywordTask.value, keywords, limit)
        /\ IdsOf(result) \subseteq IdsOf(keywordTask.value)
        /\ limit > 0 => Len(result) > 0
  /\ (path = "hybrid" /\ keywordTask.storeError /\ Len(vectorTask.value) > 0) =>
        /\ result = fuseSearchResults(vectorTask.value, <<>>, keywords, limit)
        /\ IdsOf(result) \subseteq IdsOf(vectorTask.value)
        /\ limit > 0 => Len(result) > 0
  /\ (path = "hybridEmpty") =>
        Len(SettledValue(vectorTask)) = 0 /\ Len(SettledValue(keywordTask)) = 0

\* The vector store call failed, the lexical one returned rows, and they are
\* the passages of the returned list
C3_Witness ==
  /\ path = "hybrid"
  /\ vectorTask.status = "rejected"
  /\ Len(keywordTask.value) = 2
  /\ IdsOf(result) = IdsOf(keywordTask.value)

C7_RequestsScoped ==
  \A i \in 1..Len(requests) :
    /\ requests[i].target_user_id = userId
    /\ categoryId # NoCategory => requests[i].category_filter = categoryId
    /\ categoryId = NoCategory => requests[i].category_filter = Null

\* A call with a category id that sent the vector RPC, the lexical query and
\* the fallback's vector RPC
C7_Witness ==
  /\ pc = "done" /\ path = "fallback"
  /\ categoryId # NoCategory
  /\ Len(requests) = 3
  /\ requests[2].store = "lexical" /\ requests[3].store = "vector"

\* C15: with an embedding and extracted terms, when both channels settle
\* without passages (zero rows or a failed store call, in any combination) the
\* call returns the empty list from the both-empty branch, not from fusion and
\* not by raising; fuseSearchResults of two empty lists is the empty list
C15_BothEmptyReturnsEmpty ==
  /\ (pc = "done" /\ Settled(vectorTask) /\ Settled(keywordTask)
        /\ (vectorTask.status = "rejected" \/ vectorTask.value = <<>>)
        /\ keywordTask.value = <<>>) =>
       /\ path = "hybridEmpty"
       /\ result = <<>>
       /\ queryEmbedding = "vector" /\ Len(keywords) > 0
  /\ path = "hybridEmpty" => Len(requests) = 2
  /\ fuseSearchResults(<<>>, <<>>, keywords, limit) = <<>>

\* Both store calls failed
C15_Witness ==
  /\ pc = "done" /\ path = "hybridEmpty"
  /\ vectorTask.status = "rejected"
  /\ keywordTask.storeError
  /\ Len(keywords) = 2 /\ limit > 0

\* C16: an unexpected error in the hybrid pipeline after both channels
\* settled never reaches the caller; the call sends one more vector request
\* for limit rows and returns the rows of its reply, or the empty list when
\* that request fails too
C16_FallbackAbsorbsError ==
  /\ path = "raised" => (queryEmbedding = "failed" /\ requests = <<>>)
  /\ pc = "fallback" => (Len(requests) = 2 /\ queryEmbedding = "vector" /\ path = "none")
  /\ path = "fallback" =>
       /\ pc = "done"
       /\ Len(requests) = 3
       /\ requests[3].store = "vector" /\ requests[3].match_count = limit
       /\ result = IF vectorReply.error THEN <<>> ELSE vectorReply.rows

\* The fallback's vector search returned two rows, which the call returns
C16_Witness ==
  /\ pc = "done" /\ path = "fallback"
  /\ ~vectorReply.error
  /\ Len(result) = 2 /\ result = vectorReply.rows

\* Exactly one of the two settled channels has passages
OnlyVectorHasRows == Len(SettledValue(vectorTask)) > 0 /\ Len(SettledValue(keywordTask)) = 0
OnlyKeywordHasRows == Len(SettledValue(vectorTask)) = 0 /\ Len(SettledValue(keywordTask)) > 0

\* C17: when exactly one channel produced results, the call returns what
\* diversityRerank makes of that channel's output cut to the limit, and the
\* output has not gone through fuseSearchResults
C17_SingleChannelFeedsReranker ==
  (pc = "done" /\ path = "hybrid") =>
    /\ OnlyVectorHasRows =>
         result = diversityRerank(Slice(SettledValue(vectorTask), limit), <<7, 10>>, limit)
    /\ OnlyKeywordHasRows =>
         result = diversityRerank(Slice(SettledValue(keywordTask), limit), <<7, 10>>, limit)

\* C18: fallbackKeywordSearch never propagates a failure: its promise is
\* never rejected, it is fulfilled with the empty list when the text query
\* answers with an error or a step raises, and no call of
\* searchRelevantChunks fails because of the lexical channel
C18_LexicalFailureAbsorbed ==
  /\ keywordTask.status # "rejected"
  /\ keywordTask.storeError => (keywordTask.status = "fulfilled" /\ keywordTask.value = <<>>)
  /\ path = "raised" => (queryEmbedding = "failed" /\ keywordTask = Idle)
  /\ (path = "lexicalOnly" /\ keywordTask.storeError) => result = <<>>
  /\ (path = "hybrid" /\ keywordTask.storeError) =>
        (Len(result) > 0 \/ limit = 0)

\* The text query failed on the hybrid path and the call returned the vector
\* channel's passages
C18_Witness ==
  /\ pc = "done" /\ path = "hybrid"
  /\ keywordTask.storeError
  /\ Len(result) > 0

\* a stands before b in the order: match ratio descending, then keyword_score
\* descending, then creation time descending
RankedBefore(a, b) ==
  \/ RLt(b.match_ratio, a.match_ratio)
  \/ /\ a.match_ratio = b.match_ratio
     /\ \/ RLt(b.keyword_score, a.keyword_score)
        \/ /\ a.keyword_score = b.keyword_score
           /\ a.created_at >= b.created_at

RankedList(list, searchTerms, count) ==
  /\ Len(list) <= count
  /\ \A i, j \in 1..Len(list) : i < j => RankedBefore(list[i], list[j])
  /\ \A i \in 1..Len(list) :
       /\ list[i].match_ratio = KeywordMatchRatio(list[i].content, searchTerms)
       /\ list[i].matched_keywords =
             Cardinality({k \in 1..Len(searchTerms) :
                            includes(toLowerCase(list[i].content), toLowerCase(searchTerms[k]))})
       /\ RLe(<<list[i].matched_keywords, 1>>, list[i].keyword_score)

\* C19: the list returned by fallbackKeywordSearch is ordered by match ratio
\* descending, then keyword_score descending, then creation time descending,
\* has at most as many passages as the limit it was called with, and each
\* passage's keyword_score is at least its number of matched terms
C19_RankedByRatioScoreRecency ==
  /\ path = "lexicalOnly" =>
        /\ result = keywordTask.value
        /\ RankedList(keywordTask.value, SearchTerms(Query, keywords), limit)
  /\ (pc = "hybrid" \/ path \in {"hybrid", "hybridEmpty"}) =>
        RankedList(keywordTask.value, SearchTerms(Query, keywords), limit * 2)

\* Two passages with every term found, ordered by their occurrence counts
C19_Witness ==
  /\ path = "lexicalOnly"
  /\ Len(result) = 2
  /\ result[1].match_ratio = One /\ result[2].match_ratio = One
  /\ result[1].keyword_score = <<2, 1>> /\ result[2].keyword_score = <<1, 1>>
  /\ result[1].created_at < result[2].created_at

VectorRequests == {i \in 1..Len(requests) : requests[i].store = "vector"}

\* C21: every request to the vector store carries the vector the embedding
\* service returned for this query; a failure of the service is raised and
\* nothing is substituted, and no vector search is sent with an empty vector
C21_OnlyServiceVectorsSearched ==
  /\ \A i \in VectorRequests : requests[i].query_embedding = "vector"
  /\ VectorRequests # {} => queryEmbedding = "vector"
  /\ queryEmbedding = "failed" => (path = "raised" /\ pc = "done" /\ requests = <<>>)
  /\ queryEmbedding = "empty" => VectorRequests = {}

\* The service returned an empty vector and the call searched the text store
\* only
C21_Witness ==
  /\ pc = "done" /\ queryEmbedding = "empty"
  /\ Len(requests) = 1 /\ requests[1].store = "lexical"

\* C27: once a non-empty embedding is at hand the call never raises, whatever
\* the keywords are and whichever store fails; it ends with a list, which is
\* empty when the only store asked has failed
C27_NeverRaisesWithEmbedding ==
  queryEmbedding = "vector" =>
    /\ path # "raised"
    /\ pc = "done" =>
         /\ path \in {"vectorOnly", "hybridEmpty", "hybrid", "fallback"}
         /\ Len(result) <= 2 * MaxStoreRows
         /\ (path \in {"vectorOnly", "fallback"} /\ vectorReply.error) => result = <<>>

\* No keywords and the vector store failed: the call ended with the empty list
C27_Witness ==
  /\ pc = "done" /\ path = "vectorOnly"
  /\ queryEmbedding = "vector" /\ keywords = <<>>
  /\ vectorReply.error
  /\ result = <<>>

---------------------------------------------------------------------------
(* extractKeywords *)

\* Most pieces between separators in the service's text
MaxPieces == 9

\* A piece of 21 characters
LongPiece == [i \in 1..21 |-> "x"]

\* The pieces of the service's text: one to trim, a plain one, one too long
Pieces == { <<" ","a","b"," ">>, <<"c">>, LongPiece }

\* The keyword a piece stands for
PieceKeyword(piece) == IF piece = <<" ","a","b"," ">> THEN <<"a","b">> ELSE piece

\* The separator written after the i-th piece
SeparatorAfter(i) == <<",", "U+FF0C", "U+3001">>[(i % 3) + 1]

\* The service's text: the pieces with a separator between neighbours
RECURSIVE JoinPieces(_, _)
JoinPieces(pieces, i) ==
  IF i > Len(pieces) THEN <<>>
  ELSE IF i = Len(pieces) THEN pieces[i]
  ELSE pieces[i] \o <<SeparatorAfter(i)>> \o JoinPieces(pieces, i + 1)

\* What chatCompletion did
GptReplies ==
  { [failed |-> TRUE, hasContent |-> FALSE, pieces |-> <<>>, content |-> <<>>],
    [failed |-> FALSE, hasContent |-> FALSE, pieces |-> <<>>, content |-> <<>>] } \cup
  { [failed |-> FALSE, hasContent |-> TRUE, pieces |-> ps, content |-> JoinPieces(ps, 1)] :
      ps \in SeqsUpTo(Pieces, MaxPieces) }

ExtractIdle ==
  /\ extractPc = "idle"
  /\ gptReply = [failed |-> FALSE, hasContent |-> FALSE, pieces |-> <<>>, content |-> <<>>]
  /\ extracted = [raised |-> FALSE, keywords |-> <<>>]

ExtractInit ==
  /\ extractPc = "call"
  /\ gptReply \in GptReplies
  /\ extracted = [raised |-> FALSE, keywords |-> <<>>]

\* extractKeywords(query)
ExtractCall ==
  /\ extractPc = "call"
  /\ extracted' = extractKeywords(gptReply)
  /\ extractPc' = "done"
  /\ UNCHANGED gptReply
  /\ UNCHANGED <<rerankVars, fuseVars, searchVars, routeVars, frameVars>>

ExtractNext == ExtractCall

---------------------------------------------------------------------------
(* Properties of extractKeywords *)

\* The keywords the service gave, in its order: the pieces that are neither
\* empty nor longer than 20 characters
GivenKeywords ==
  SelectSeq([i \in 1..Len(gptReply.pieces) |-> PieceKeyword(gptReply.pieces[i])],
            LAMBDA kw : Len(kw) \in 1..20)

---------------------------------------------------------------------------
(* router.post('/completions') *)

\* A body without userId
NoUser == ""

\* part_009 line 85: the limit the route asks for
routeLimit == 5

RouteIdle ==
  /\ routePc = "idle"
  /\ body = [messagesValid |-> TRUE, hasUserMessage |-> TRUE, userId |-> "u1",
             categoryId |-> NoCategory, apiKey |-> TRUE]
  /\ status = 0
  /\ llmCalls = 0

\* A request arrives; apiKey tells whether OPENROUTER_API_KEY is configured
RouteInit ==
  /\ routePc = "validate"
  /\ body \in [messagesValid : BOOLEAN, hasUserMessage : BOOLEAN,
               userId : {NoUser, "u1"}, categoryId : Categories, apiKey : BOOLEAN]
  /\ status = 0
  /\ llmCalls = 0

\* lines 58-64
RouteRejectMessages ==
  /\ routePc = "validate"
  /\ ~body.messagesValid
  /\ status' = 400
  /\ routePc' = "sent"
  /\ UNCHANGED <<body, llmCalls>>
  /\ UNCHANGED <<rerankVars, fuseVars, searchVars, extractVars, frameVars>>

OwnerNeverMissing(request) == FALSE

\* line 66: !userId
OwnerMissing(request) == request.userId = NoUser

\* lines 66-72
RouteRejectOwner ==
  /\ routePc = "validate"
  /\ body.messagesValid
  /\ OwnerMissing(body)
  /\ status' = 400
  /\ routePc' = "sent"
  /\ UNCHANGED <<body, llmCalls>>
  /\ UNCHANGED <<rerankVars, fuseVars, searchVars, extractVars, frameVars>>

\* lines 75-82
RouteRejectNoUserMessage ==
  /\ routePc = "validate"
  /\ body.messagesValid
  /\ ~OwnerMissing(body)
  /\ ~body.hasUserMessage
  /\ status' = 400
  /\ routePc' = "sent"
  /\ UNCHANGED <<body, llmCalls>>
  /\ UNCHANGED <<rerankVars, fuseVars, searchVars, extractVars, frameVars>>

\* line 85: searchRelevantChunks(lastUserMessage.content, userId, 5, categoryId)
\* is called
RouteSearch ==
  /\ routePc = "validate"
  /\ body.messagesValid
  /\ ~OwnerMissing(body)
  /\ body.hasUserMessage
  /\ pc = "idle"
  /\ pc' = "extract"
  /\ userId' = body.userId
  /\ limit' = routeLimit
  /\ categoryId' = body.categoryId
  /\ routePc' = "searching"
  /\ UNCHANGED <<keywords, queryEmbedding, vectorTask, keywordTask, vectorReply,
                 requests, result, path>>
  /\ UNCHANGED <<body, status, llmCalls>>
  /\ UNCHANGED <<rerankVars, fuseVars, extractVars, frameVars>>

\* lines 85 and 189-196: searchRelevantChunks raised
RouteSearchRaised ==
  /\ routePc = "searching"
  /\ pc = "done" /\ path = "raised"
  /\ status' = 500
  /\ routePc' = "sent"
  /\ UNCHANGED <<body, llmCalls>>
  /\ UNCHANGED <<rerankVars, fuseVars, searchVars, extractVars, frameVars>>

AlwaysRelevant(list) == FALSE

\* line 87
NothingRelevant(list) == Len(list) = 0

\* lines 87-92
RouteNoDocuments ==
  /\ routePc = "searching"
  /\ pc = "done" /\ path # "raised"
  /\ NothingRelevant(result)
  /\ status' = 404
  /\ routePc' = "sent"
  /\ UNCHANGED <<body, llmCalls>>
  /\ UNCHANGED <<rerankVars, fuseVars, searchVars, extractVars, frameVars>>

\* lines 94-132 and 189-196: no request is made to the model: the API key is
\* not configured, or building the context raises on a passage that comes
\* without its document
RouteFailsBeforeModel ==
  /\ routePc = "searching"
  /\ pc = "done" /\ path # "raised"
  /\ ~NothingRelevant(result)
  /\ status' = 500
  /\ routePc' = "sent"
  /\ UNCHANGED <<body, llmCalls>>
  /\ UNCHANGED <<rerankVars, fuseVars, searchVars, extractVars, frameVars>>

\* lines 94-153: the context is built and the request to the model is sent
RouteCallModel ==
  /\ routePc = "searching"
  /\ pc = "done" /\ path # "raised"
  /\ ~NothingRelevant(result)
  /\ body.apiKey
  /\ llmCalls' = llmCalls + 1
  /\ routePc' = "model"
  /\ UNCHANGED <<body, status>>
  /\ UNCHANGED <<rerankVars, fuseVars, searchVars, extractVars, frameVars>>

\* lines 155-196: the model's response is relayed: its own status when it is
\* not ok, 200 with the answer, 500 when the fetch or the parsing raises
RouteRelay ==
  /\ routePc = "model"
  /\ status' \in {200, 429, 500}
  /\ routePc' = "sent"
  /\ UNCHANGED <<body, llmCalls>>
  /\ UNCHANGED <<rerankVars, fuseVars, searchVars, extractVars, frameVars>>

RouteNext ==
  \/ RouteRejectMessages
  \/ RouteRejectOwner
  \/ RouteRejectNoUserMessage
  \/ RouteSearch
  \/ RouteSearchRaised
  \/ RouteNoDocuments
  \/ RouteFailsBeforeModel
  \/ RouteCallModel
  \/ RouteRelay
  \/ ExtractKeywords
  \/ GenerateEmbedding
  \/ EmbeddingFails
  \/ LexicalOnly
  \/ VectorOnly
  \/ StartHybrid
  \/ VectorSettles
  \/ KeywordSettles
  \/ HybridEmpty
  \/ HybridFuse
  \/ HybridThrows
  \/ FallbackVectorSearch

---------------------------------------------------------------------------
(* Properties of the /completions route *)

\* No step of the retrieval pipeline has been taken
NoRetrievalIO ==
  /\ pc = "idle"
  /\ keywords = <<>> /\ queryEmbedding = "none"
  /\ requests = <<>>
  /\ vectorTask = Idle /\ keywordTask = Idle

\* C22: a request without owner id is answered with a client error and no
\* keyword extraction, embedding, vector store or lexical store call is ever
\* made for it
C22_MissingOwnerRejectedBeforeIO ==
  body.userId = NoUser =>
    /\ NoRetrievalIO
    /\ llmCalls = 0
    /\ routePc = "sent" => status = 400
    /\ routePc \in {"validate", "sent"}

\* A request with messages and without owner id has been answered
C22_Witness ==
  /\ body.userId = NoUser /\ body.messagesValid /\ body.hasUserMessage
  /\ routePc = "sent" /\ status = 400

---------------------------------------------------------------------------
(* The inputs of fuseSearchResults and diversityRerank as objects and arrays *)

\* Longest vector list and longest keyword list of a caller
MaxFrameRows == 3
MaxFrameKeywordRows == 2

\* An object with every field a passage can carry; Absent stands for a field
\* the object does not have
Passage(id, similarity, keyword_score) ==
  [id |-> id, content |-> PassageText(id),
   similarity |-> similarity, embedding |-> NoEmbedding,
   keyword_score |-> keyword_score,
   vector_score |-> Absent, hybrid_score |-> Absent,
   keyword_match_ratio |-> Absent, normalized_vector_score |-> Absent,
   normalized_keyword_score |-> Absent]

FrameVectorRows ==
  {Passage(1, <<9, 10>>, Absent), Passage(2, <<4, 10>>, Absent), Passage(3, Absent, Absent)}

FrameKeywordRows ==
  {Passage(1, Absent, <<3, 1>>), Passage(3, Absent, <<1, 1>>), Passage(2, Absent, Absent)}

\* The objects behind a list of references
ValuesOf(h, refs) == [i \in 1..Len(refs) |-> h[refs[i]]]

\* obj with the fields of fields written over its own
Merge(obj, fields) ==
  [k \in DOMAIN obj |-> IF k \in DOMAIN fields THEN fields[k] ELSE obj[k]]

AssignInPlace(h, ref, fields) ==
  [heap |-> [h EXCEPT ![ref] = Merge(h[ref], fields)], ref |-> ref]

\* { ...chunk, fields }: a new object
Spread(h, ref, fields) ==
  [heap |-> Append(h, Merge(h[ref], fields)), ref |-> Len(h) + 1]

\* [...chunks]: a new array with the same references
CopyArray(arrs, a) == [arrays |-> Append(arrs, arrs[a]), array |-> Len(arrs) + 1]

\* resultMap.set(chunkId, made): the map holds the reference
MapSet(resultMap, made) == [heap |-> made.heap, map |-> Append(resultMap, made.ref)]

\* searchService.ts lines 190-200
RECURSIVE StoreVectorChunks(_, _)
StoreVectorChunks(stored, refs) ==
  IF refs = <<>> THEN stored
  ELSE LET chunk == stored.heap[Head(refs)]
       IN  IF ~MapHas(ValuesOf(stored.heap, stored.map), chunk.id)
           THEN StoreVectorChunks(
                  MapSet(stored.map,
                         Spread(stored.heap, Head(refs),
                                [vector_score |-> OrZero(chunk.similarity),
                                 keyword_score |-> Zero,
                                 hybrid_score |-> Zero])),
                  Tail(refs))
           ELSE StoreVectorChunks(stored, Tail(refs))

\* searchService.ts lines 203-218: an entry already in the map has its
\* keyword_score written; a new entry is a new object
RECURSIVE StoreKeywordChunks(_, _)
StoreKeywordChunks(stored, refs) ==
  IF refs = <<>> THEN stored
  ELSE LET chunk == stored.heap[Head(refs)]
           known == ValuesOf(stored.heap, stored.map)
       IN  IF MapHas(known, chunk.id)
           THEN LET existingChunk == stored.map[MapIndex(known, chunk.id)]
                IN  StoreKeywordChunks(
                      [heap |-> [stored.heap EXCEPT ![existingChunk].keyword_score =
                                                       OrZero(chunk.keyword_score)],
                       map |-> stored.map],
                      Tail(refs))
           ELSE StoreKeywordChunks(
                  MapSet(stored.map,
                         Spread(stored.heap, Head(refs),
                                [vector_score |-> Zero,
                                 keyword_score |-> OrZero(chunk.keyword_score),
                                 hybrid_score |-> Zero])),
                  Tail(refs))

\* lines 272-278: the fields the scoring writes
ScoreFields(scored) ==
  [hybrid_score |-> scored.hybrid_score,
   keyword_match_ratio |-> scored.keyword_match_ratio,
   normalized_vector_score |-> scored.normalized_vector_score,
   normalized_keyword_score |-> scored.normalized_keyword_score]

\* searchService.ts lines 221-279: .map makes one new object per map entry
RECURSIVE ScoreEntries(_, _, _, _, _)
ScoreEntries(stored, refs, terms, vectorScores, keywordScores) ==
  IF refs = <<>> THEN stored
  ELSE ScoreEntries(
         MapSet(stored.map,
                Spread(stored.heap, Head(refs),
                       ScoreFields(ScoreChunk(stored.heap[Head(refs)], terms,
                                              MinScore(vectorScores), MaxScore(vectorScores),
                                              MinScore(keywordScores), MaxScore(keywordScores))))),
         Tail(refs), terms, vectorScores, keywordScores)

\* The references of refs in the order of their sorted objects
InOrderOf(h, refs, sorted) ==
  [i \in 1..Len(refs) |->
     CHOOSE r \in {refs[k] : k \in 1..Len(refs)} : h[r].id = sorted[i].id]

\* searchService.ts lines 280-287: the array made by .map, sorted in place
SortedRefs(h, refs) == InOrderOf(h, refs, SortFused(ValuesOf(h, refs)))

\* lines 280-288: array a sorted in place, and its slice as a new array
SortAndSlice(arrs, a, sorted, count) ==
  Append([arrs EXCEPT ![a] = sorted], Truncate(sorted, count))

\* similarityService.ts lines 74-85: the best candidate is spliced out of the
\* array copied holds and pushed to a new array, selectedChunks
SeedOnHeap(h, copied) ==
  LET bestIndex == SeedIndex(ValuesOf(h, copied.arrays[copied.array]))
  IN  [arrays |-> Append([copied.arrays EXCEPT ![copied.array] = RemoveAt(@, bestIndex)],
                         <<copied.arrays[copied.array][bestIndex]>>),
       array |-> copied.array]

\* similarityService.ts lines 89-135 on references: what remainingChunks and
\* selectedChunks hold when the loop is left
RECURSIVE SelectOnHeap(_, _, _, _, _)
SelectOnHeap(h, remaining, selected, weight, count) ==
  IF Len(selected) < count /\ Len(remaining) > 0
  THEN LET i == BestMMRIndex(ValuesOf(h, remaining), ValuesOf(h, selected), weight)
       IN  IF i >= 1
           THEN SelectOnHeap(h, RemoveAt(remaining, i), Append(selected, remaining[i]),
                             weight, count)
           ELSE [remaining |-> remaining, selected |-> selected]
  ELSE [remaining |-> remaining, selected |-> selected]

\* similarityService.ts lines 143-158 on references
RECURSIVE DedupOnHeap(_, _, _)
DedupOnHeap(h, selected, kept) ==
  IF selected = <<>> THEN kept
  ELSE DedupOnHeap(h, Tail(selected),
                   IF IsDuplicate(h[Head(selected)], ValuesOf(h, kept)) THEN kept
                   ELSE Append(kept, Head(selected)))

FrameIdle ==
  /\ framePc = "idle" /\ heap = <<>> /\ arrays = <<>>
  /\ frameCall = [terms |-> <<>>, limit |-> 0, lambda |-> Zero]
  /\ before = [heap |-> <<>>, arrays |-> <<>>]
  /\ frameOut = 0

\* The caller holds a vector list (array 1) and a keyword list (array 2)
FrameInit ==
  /\ framePc = "vector"
  /\ \E vectorChunks \in SeqsUpTo(FrameVectorRows, MaxFrameRows),
        keywordChunks \in SeqsUpTo(FrameKeywordRows, MaxFrameKeywordRows) :
        /\ heap = vectorChunks \o keywordChunks
        /\ arrays = << [i \in 1..Len(vectorChunks) |-> i],
                       [i \in 1..Len(keywordChunks) |-> Len(vectorChunks) + i] >>
  /\ frameCall \in [terms : {<<>>, <<TermAlpha, TermBeta>>}, limit : 0..MaxLimit,
                    lambda : {Zero, <<7, 10>>}]
  /\ before = [heap |-> heap, arrays |-> arrays]
  /\ frameOut = 0

\* fuseSearchResults, lines 177 and 190-200; resultMap is the last array
FrameStoreVector ==
  /\ framePc = "vector"
  /\ LET stored == StoreVectorChunks([heap |-> heap, map |-> <<>>], arrays[1])
     IN  /\ heap' = stored.heap
         /\ arrays' = Append(arrays, stored.map)
  /\ frameOut' = Len(arrays) + 1
  /\ framePc' = "keyword"
  /\ UNCHANGED <<frameCall, before>>
  /\ UNCHANGED <<rerankVars, fuseVars, searchVars, extractVars, routeVars>>

\* fuseSearchResults, lines 203-218
FrameStoreKeyword ==
  /\ framePc = "keyword"
  /\ LET stored == StoreKeywordChunks([heap |-> heap, map |-> arrays[frameOut]], arrays[2])
     IN  /\ heap' = stored.heap
         /\ arrays' = [arrays EXCEPT ![frameOut] = stored.map]
  /\ framePc' = "score"
  /\ UNCHANGED <<frameCall, before, frameOut>>
  /\ UNCHANGED <<rerankVars, fuseVars, searchVars, extractVars, routeVars>>

\* fuseSearchResults, lines 180-187 and 221-279: the array .map returns
FrameScore ==
  /\ framePc = "score"
  /\ LET stored == ScoreEntries([heap |-> heap, map |-> <<>>], arrays[frameOut],
                                frameCall.terms,
                                VectorScoresOf(ValuesOf(heap, arrays[1])),
                                KeywordScoresOf(ValuesOf(heap, arrays[2])))
     IN  /\ heap' = stored.heap
         /\ arrays' = Append(arrays, stored.map)
  /\ frameOut' = Len(arrays) + 1
  /\ framePc' = "sort"
  /\ UNCHANGED <<frameCall, before>>
  /\ UNCHANGED <<rerankVars, fuseVars, searchVars, extractVars, routeVars>>

\* fuseSearchResults, lines 280-290
FrameSort ==
  /\ framePc = "sort"
  /\ arrays' = SortAndSlice(arrays, frameOut, SortedRefs(heap, arrays[frameOut]),
                            frameCall.limit)
  /\ frameOut' = Len(arrays) + 1
  /\ framePc' = "rerank"
  /\ UNCHANGED <<heap, frameCall, before>>
  /\ UNCHANGED <<rerankVars, fuseVars, searchVars, extractVars, routeVars>>

\* diversityRerank(vectorChunks, lambda, limit), lines 60-68
FrameReturnEarly ==
  /\ framePc = "rerank"
  /\ Len(arrays[1]) = 0 \/ ReturnsUnchanged(arrays[1], frameCall.limit)
  /\ IF Len(arrays[1]) = 0
     THEN arrays' = Append(arrays, <<>>) /\ frameOut' = Len(arrays) + 1
     ELSE arrays' = arrays /\ frameOut' = 1
  /\ framePc' = "done"
  /\ UNCHANGED <<heap, frameCall, before>>
  /\ UNCHANGED <<rerankVars, fuseVars, searchVars, extractVars, routeVars>>

\* diversityRerank, lines 70-86; frameOut is remainingChunks and the last
\* array is selectedChunks
FrameSeed ==
  /\ framePc = "rerank"
  /\ ~(Len(arrays[1]) = 0 \/ ReturnsUnchanged(arrays[1], frameCall.limit))
  /\ LET seeded == SeedOnHeap(heap, CopyArray(arrays, 1))
     IN  /\ arrays' = seeded.arrays
         /\ frameOut' = seeded.array
  /\ framePc' = "select"
  /\ UNCHANGED <<heap, frameCall, before>>
  /\ UNCHANGED <<rerankVars, fuseVars, searchVars, extractVars, routeVars>>

\* diversityRerank, lines 89-135
FrameSelect ==
  /\ framePc = "select"
  /\ LET looped == SelectOnHeap(heap, arrays[frameOut], arrays[Len(arrays)],
                                frameCall.lambda, frameCall.limit)
     IN  arrays' = [arrays EXCEPT ![frameOut] = looped.remaining,
                                  ![Len(arrays)] = looped.selected]
  /\ framePc' = "dedup"
  /\ UNCHANGED <<heap, frameCall, before, frameOut>>
  /\ UNCHANGED <<rerankVars, fuseVars, searchVars, extractVars, routeVars>>

\* diversityRerank, lines 139-162
FrameDedup ==
  /\ framePc = "dedup"
  /\ arrays' = Append(arrays, DedupOnHeap(heap, arrays[Len(arrays)], <<>>))
  /\ frameOut' = Len(arrays) + 1
  /\ framePc' = "done"
  /\ UNCHANGED <<heap, frameCall, before>>
  /\ UNCHANGED <<rerankVars, fuseVars, searchVars, extractVars, routeVars>>

FrameNext ==
  \/ FrameStoreVector
  \/ FrameStoreKeyword
  \/ FrameScore
  \/ FrameSort
  \/ FrameReturnEarly
  \/ FrameSeed
  \/ FrameSelect
  \/ FrameDedup

\* The caller's arrays and objects are as they were before the calls
InputsAsBefore ==
  /\ \A a \in 1..Len(before.arrays) : arrays[a] = before.arrays[a]
  /\ \A r \in 1..Len(before.heap) : heap[r] = before.heap[r]

\* C30: during and after fuseSearchResults and diversityRerank the input
\* lists have the same length and order and every input passage has the same
\* field values as before the call
C30_InputsUnchanged == InputsAsBefore

\* Fusion wrote the keyword score of a passage found in both lists into its
\* own object, and reranking spliced two of three passages out of its own
\* array
C30_Witness ==
  /\ framePc = "done"
  /\ InputsAsBefore
  /\ \E r \in (Len(before.heap) + 1)..Len(heap), v \in 1..Len(arrays[1]) :
        /\ heap[r].id = heap[arrays[1][v]].id
        /\ RLt(Zero, heap[r].keyword_score)
        /\ heap[arrays[1][v]].keyword_score = Absent
  /\ Len(arrays[1]) = 3
  /\ frameOut = Len(arrays)
  /\ Len(arrays[Len(arrays) - 2]) = 1
  /\ Len(arrays[Len(arrays) - 1]) = 2

---------------------------------------------------------------------------
(* Specifications *)

Init == SearchInit /\ RerankIdle /\ FuseIdle /\ ExtractIdle /\ RouteIdle /\ FrameIdle

Next ==
  \/ ExtractKeywords
  \/ GenerateEmbedding
  \/ EmbeddingFails
  \/ LexicalOnly
  \/ VectorOnly
  \/ StartHybrid
  \/ VectorSettles
  \/ KeywordSettles
  \/ HybridEmpty
  \/ HybridFuse
  \/ HybridThrows
  \/ FallbackVectorSearch

\* One call of searchRelevantChunks
Spec == Init /\ [][Next]_vars

RerankSpecInit == RerankInit /\ FuseIdle /\ SearchIdle /\ ExtractIdle /\ RouteIdle /\ FrameIdle

\* One call of diversityRerank on every candidate list
RerankSpec == RerankSpecInit /\ [][RerankNext]_vars

FuseSpecInit == FuseInit /\ RerankIdle /\ SearchIdle /\ ExtractIdle /\ RouteIdle /\ FrameIdle

\* One call of fuseSearchResults on every pair of channel lists
FuseSpec == FuseSpecInit /\ [][FuseNext]_vars

OrderSpecInit == OrderInit /\ RerankIdle /\ SearchIdle /\ ExtractIdle /\ RouteIdle /\ FrameIdle

\* One call of fuseSearchResults on every vector channel of closely spaced rows
OrderSpec == OrderSpecInit /\ [][OrderNext]_vars

ExtractSpecInit == ExtractInit /\ RerankIdle /\ FuseIdle /\ SearchIdle /\ RouteIdle /\ FrameIdle

\* One call of extractKeywords on every reply of the chat completion service
ExtractSpec == ExtractSpecInit /\ [][ExtractNext]_vars

RouteSpecInit == RouteInit /\ SearchIdle /\ RerankIdle /\ FuseIdle /\ ExtractIdle /\ FrameIdle

\* One POST /completions request with the retrieval it starts
RouteSpec == RouteSpecInit /\ [][RouteNext]_vars

RerankLiveSpecInit == RerankLiveInit /\ FuseIdle /\ SearchIdle /\ ExtractIdle /\ RouteIdle /\ FrameIdle

\* diversityRerank is one synchronous function: the engine runs it to its
\* return without interleaving, so a loop body or a step between the loops
\* that can run does run
RerankLiveSpec ==
  /\ RerankLiveSpecInit
  /\ [][RerankNext]_vars
  /\ WF_vars(RerankControl)
  /\ WF_vars(LoopIteration)
  /\ WF_vars(DedupIteration)

ScenarioSpecInit == ScenarioInit /\ RerankIdle /\ SearchIdle /\ ExtractIdle /\ RouteIdle /\ FrameIdle

\* fuseSearchResults on the scenario's channel lists
ScenarioSpec == ScenarioSpecInit /\ [][ScenarioNext]_vars

FrameSpecInit ==
  FrameInit /\ RerankIdle /\ FuseIdle /\ SearchIdle /\ ExtractIdle /\ RouteIdle

\* The two functions called one after the other on the caller's lists
FrameSpec == FrameSpecInit /\ [][FrameNext]_vars

====
